---- MODULE Spec2Model ----
(***************************************************************************)
(* Model of the luna-go driver: the frame codec (protocol.go), the session *)
(* (conn.go), the transaction shim (tx), and the result cursor (rows.go).  *)
(* The wire is a sequence of bytes (0..255).  `unread` holds every byte    *)
(* the server has sent and the client has not yet consumed (the socket     *)
(* plus the bufio.Reader of the Conn).                                     *)
(***************************************************************************)
EXTENDS Integers, Sequences, FiniteSets, TLC

\* ------------------------------------------------------------------ bounds
MaxCmds == 3
MaxBatches == 3
MaxBatchRows == 2
MaxSqlLen == 2
MaxCols == 2
MaxCellRows == 2

\* ------------------------------------------------------- byte-level helpers
Take(s, n) == SubSeq(s, 1, n)
Drop(s, n) == SubSeq(s, n + 1, Len(s))

CRLF == <<13, 10>>
Marker == <<255, 255, 255, 255>>

\* strings.TrimSpace on ASCII input: cuts leading and trailing white space
IsSpace(b) == b \in {9, 10, 11, 12, 13, 32}

RECURSIVE TrimLeft(_)
TrimLeft(s) == IF s # <<>> /\ IsSpace(Head(s)) THEN TrimLeft(Tail(s)) ELSE s

RECURSIVE TrimRight(_)
TrimRight(s) ==
    IF s # <<>> /\ IsSpace(s[Len(s)]) THEN TrimRight(Take(s, Len(s) - 1)) ELSE s

TrimSpace(s) == TrimRight(TrimLeft(s))

\* fmt.Sprintf("%d", n) for n >= 0
RECURSIVE FormatInt(_)
FormatInt(n) ==
    IF n < 10 THEN <<48 + n>> ELSE Append(FormatInt(n \div 10), 48 + (n % 10))

IsDigit(b) == b \in 48..57

RECURSIVE DigitsValue(_)
DigitsValue(s) ==
    IF s = <<>> THEN 0 ELSE 10 * DigitsValue(Take(s, Len(s) - 1)) + (s[Len(s)] - 48)

\* strconv.Atoi: optional sign, then one or more decimal digits
Atoi(s) ==
    LET signed == s # <<>> /\ Head(s) \in {43, 45}
        digits == IF signed THEN Tail(s) ELSE s
        ok     == digits # <<>> /\ \A i \in 1..Len(digits) : IsDigit(digits[i])
    IN  IF ~ok THEN [ok |-> FALSE, val |-> 0]
        ELSE [ok |-> TRUE,
              val |-> IF s[1] = 45 THEN 0 - DigitsValue(digits) ELSE DigitsValue(digits)]

\* ------------------------------------------------------------- frame codec
cmdQuery == <<113, 58>>
cmdExecute == <<120, 58>>

\* sendCommand counting the trailing CR LF in the length
sendCommandLenWithCRLF(cmd, sql) ==
    LET message == cmd \o sql
    IN  <<36>> \o FormatInt(Len(message) + 2) \o CRLF \o message \o CRLF

\* sendCommand taking the length of the SQL text alone
sendCommandLenOfSql(cmd, sql) ==
    LET message == cmd \o sql
    IN  <<36>> \o FormatInt(Len(sql)) \o CRLF \o message \o CRLF

\* the frame sendCommand hands to conn.Write
sendCommand(cmd, sql) ==
    LET message == cmd \o sql
    IN  <<36>> \o FormatInt(Len(message)) \o CRLF \o message \o CRLF

\* Reads on the buffered reader.  A read that needs more bytes than the
\* server has sent blocks unless the peer has closed its end (eof).
\* st: "ret" the read returned, "block" the read never returns.
IndexOfLF(s) ==
    IF \E i \in 1..Len(s) : s[i] = 10
    THEN CHOOSE i \in 1..Len(s) : s[i] = 10 /\ \A j \in 1..(i - 1) : s[j] # 10
    ELSE 0

ReadByte(s, eof) ==
    IF s # <<>> THEN [st |-> "ret", err |-> "nil", val |-> <<Head(s)>>, rest |-> Tail(s)]
    ELSE IF eof THEN [st |-> "ret", err |-> "EOF", val |-> <<>>, rest |-> <<>>]
    ELSE [st |-> "block", err |-> "nil", val |-> <<>>, rest |-> <<>>]

ReadString(s, eof) ==
    LET i == IndexOfLF(s)
    IN  IF i > 0 THEN [st |-> "ret", err |-> "nil", val |-> Take(s, i), rest |-> Drop(s, i)]
        ELSE IF eof THEN [st |-> "ret", err |-> "EOF", val |-> s, rest |-> <<>>]
        ELSE [st |-> "block", err |-> "nil", val |-> <<>>, rest |-> <<>>]

ReadFull(s, n, eof) ==
    IF Len(s) >= n THEN [st |-> "ret", err |-> "nil", val |-> Take(s, n), rest |-> Drop(s, n)]
    ELSE IF eof
         THEN [st |-> "ret", err |-> IF s = <<>> THEN "EOF" ELSE "unexpected EOF",
               val |-> s, rest |-> <<>>]
    ELSE [st |-> "block", err |-> "nil", val |-> <<>>, rest |-> <<>>]

\* result of readResponse: the (type, data, err) triple plus what is left unread
Resp(typ, data, err, rest) ==
    [st |-> "ret", typ |-> typ, data |-> data, err |-> err, rest |-> rest]
RespBlock == [st |-> "block", typ |-> "", data |-> <<>>, err |-> "nil", rest |-> <<>>]
RespPanic(rest) == [st |-> "panic", typ |-> "", data |-> <<>>, err |-> "nil", rest |-> rest]

\* the line cases taking a line that reads as a number for an Integer
LineSniffed(typ, l) ==
    IF l.st = "block" THEN RespBlock
    ELSE IF l.err # "nil" THEN Resp("", <<>>, l.err, l.rest)
    ELSE Resp(IF Atoi(TrimSpace(l.val)).ok THEN "int" ELSE typ,
              TrimSpace(l.val), "nil", l.rest)

\* the line cases '+', '-' and ':': the line up to LF, trimmed
Line(typ, l) ==
    IF l.st = "block" THEN RespBlock
    ELSE IF l.err # "nil" THEN Resp("", <<>>, l.err, l.rest)
    ELSE Resp(typ, TrimSpace(l.val), "nil", l.rest)

ReadLine(typ, s, eof) == Line(typ, ReadString(s, eof))

\* case 0xFF: the three bytes m that follow must all be 0xFF
MarkerRest(m) ==
    IF m.st = "block" THEN RespBlock
    ELSE IF m.err # "nil"
         THEN Resp("", <<>>, "failed to read continuation marker", m.rest)
    ELSE IF m.val # <<255, 255, 255>>
         THEN Resp("", <<>>, "invalid continuation marker", m.rest)
    ELSE Resp("arrow-stream", Marker, "nil", m.rest)

ReadMarker(s, eof) == MarkerRest(ReadFull(s, 3, eof))

\* case '$': the length line l, the length n, the data d, and the two
\* bytes c and f read after the data whatever they are
BulkEnd(data, f) ==
    IF f.st = "block" THEN RespBlock ELSE Resp("bulk", data, "nil", f.rest)

BulkTrailer(data, c, eof) ==
    IF c.st = "block" THEN RespBlock ELSE BulkEnd(data, ReadByte(c.rest, eof))

BulkData(d, eof) ==
    IF d.st = "block" THEN RespBlock
    ELSE IF d.err # "nil" THEN Resp("", <<>>, d.err, d.rest)
    ELSE BulkTrailer(d.val, ReadByte(d.rest, eof), eof)

BulkLength(n, rest, eof) ==
    IF ~n.ok THEN Resp("", <<>>, "invalid length", rest)
    ELSE IF n.val = -1 THEN Resp("null", <<>>, "nil", rest)
    ELSE IF n.val < 0 THEN RespPanic(rest)
    ELSE BulkData(ReadFull(rest, n.val, eof), eof)

BulkLine(l, eof) ==
    IF l.st = "block" THEN RespBlock
    ELSE IF l.err # "nil" THEN Resp("", <<>>, l.err, l.rest)
    ELSE BulkLength(Atoi(TrimSpace(l.val)), l.rest, eof)

ReadBulk(s, eof) == BulkLine(ReadString(s, eof), eof)

\* the switch on the first byte with the cases of ':' and '+' falling into one
DispatchMergedCases(b, eof) ==
    IF b.st = "block" THEN RespBlock
    ELSE IF b.err # "nil" THEN Resp("", <<>>, b.err, b.rest)
    ELSE IF b.val = <<255>> THEN ReadMarker(b.rest, eof)
    ELSE IF b.val = <<36>> THEN ReadBulk(b.rest, eof)
    ELSE IF b.val \in {<<43>>, <<58>>} THEN ReadLine("ok", b.rest, eof)
    ELSE IF b.val = <<45>> THEN ReadLine("error", b.rest, eof)
    ELSE Resp("", <<>>, "unknown response type", b.rest)

\* the switch of readResponse on the first byte b
Dispatch(b, eof) ==
    IF b.st = "block" THEN RespBlock
    ELSE IF b.err # "nil" THEN Resp("", <<>>, b.err, b.rest)
    ELSE IF b.val = <<255>> THEN ReadMarker(b.rest, eof)
    ELSE IF b.val = <<36>> THEN ReadBulk(b.rest, eof)
    ELSE IF b.val = <<43>> THEN ReadLine("ok", b.rest, eof)
    ELSE IF b.val = <<45>> THEN ReadLine("error", b.rest, eof)
    ELSE IF b.val = <<58>> THEN ReadLine("int", b.rest, eof)
    ELSE Resp("", <<>>, "unknown response type", b.rest)

\* readResponse with the cases of ':' and '+' falling into one
readResponseMergedCases(s, eof) == DispatchMergedCases(ReadByte(s, eof), eof)

readResponse(s, eof) == Dispatch(ReadByte(s, eof), eof)

\* ------------------------------------------------- streaming batch decoder
\* The columnar stream read by ipc.NewReader / ipcReader.Next, reduced to its
\* framing: every block is Marker, a 4-byte little-endian metadata length,
\* the metadata, and the body.  Metadata is <<kind, bodyLength, ...>>: kind
\* 1 is the schema block <<1, 0, ncols, type_1 .. type_ncols>>, kind 3 a
\* data block <<3, bodyLength, nrows>> whose body is nrows * ncols one-byte
\* cells in row order (0 is a null cell).  Marker followed by length 0, or
\* four zero bytes, is the end-of-stream marker.  A column of the schema is
\* one byte: its name in the high 3 bits, its type tag in the low 5.
FieldType(f) == f % 32
FieldName(f) == f \div 32

LE32(n) == <<n % 256, (n \div 256) % 256, (n \div 65536) % 256, (n \div 16777216) % 256>>
FromLE32(b) == b[1] + 256 * b[2] + 65536 * b[3] + 16777216 * b[4]

RECURSIVE Flatten(_)
Flatten(ss) == IF ss = <<>> THEN <<>> ELSE Head(ss) \o Flatten(Tail(ss))

EncMessage(meta, body) == Marker \o LE32(Len(meta)) \o meta \o body
EncSchema(types) == EncMessage(<<1, 0, Len(types)>> \o types, <<>>)
EncBatch(rows) == EncMessage(<<3, Len(Flatten(rows)), Len(rows)>>, Flatten(rows))
EOS == Marker \o LE32(0)

RECURSIVE EncBatches(_)
EncBatches(bs) == IF bs = <<>> THEN <<>> ELSE EncBatch(Head(bs)) \o EncBatches(Tail(bs))

\* a whole well-formed response stream: schema, data blocks, end marker
EncStream(types, bs) == EncSchema(types) \o EncBatches(bs) \o EOS

\* one block read by the message reader.  kind: "msg", "eos" (end marker or
\* connection closed at a block boundary), "err", "block"
Msg(kind, meta, body, rest) == [kind |-> kind, meta |-> meta, body |-> body, rest |-> rest]

MsgBody(meta, b) ==
    IF b.st = "block" THEN Msg("block", <<>>, <<>>, <<>>)
    ELSE IF b.err # "nil" THEN Msg("err", <<>>, <<>>, b.rest)
    ELSE Msg("msg", meta, b.val, b.rest)

MsgMeta(m, eof) ==
    IF m.st = "block" THEN Msg("block", <<>>, <<>>, <<>>)
    ELSE IF m.err # "nil" \/ Len(m.val) < 2 THEN Msg("err", <<>>, <<>>, m.rest)
    ELSE MsgBody(m.val, ReadFull(m.rest, m.val[2], eof))

MsgLength(l, eof) ==
    IF l.st = "block" THEN Msg("block", <<>>, <<>>, <<>>)
    ELSE IF l.err # "nil" THEN Msg("err", <<>>, <<>>, l.rest)
    ELSE IF FromLE32(l.val) = 0 THEN Msg("eos", <<>>, <<>>, l.rest)
    ELSE MsgMeta(ReadFull(l.rest, FromLE32(l.val), eof), eof)

MsgContinuation(c, eof) ==
    IF c.st = "block" THEN Msg("block", <<>>, <<>>, <<>>)
    ELSE IF c.err = "EOF" THEN Msg("eos", <<>>, <<>>, c.rest)
    ELSE IF c.err # "nil" THEN Msg("err", <<>>, <<>>, c.rest)
    ELSE IF c.val = <<0, 0, 0, 0>> THEN Msg("eos", <<>>, <<>>, c.rest)
    ELSE IF c.val # Marker THEN Msg("err", <<>>, <<>>, c.rest)
    ELSE MsgLength(ReadFull(c.rest, 4, eof), eof)

\* the 4 bytes of the continuation marker, the length, the metadata, the body
Message(s, eof) == MsgContinuation(ReadFull(s, 4, eof), eof)

\* the rows of a data block: nrows rows of ncols cells each
Chunk(body, ncols, nrows) ==
    [i \in 1..nrows |-> SubSeq(body, (i - 1) * ncols + 1, i * ncols)]

IsSchemaMeta(meta) == Len(meta) >= 3 /\ meta[1] = 1 /\ Len(meta) = 3 + meta[3]
IsBatchMeta(meta, ncols) ==
    Len(meta) = 3 /\ meta[1] = 3 /\ meta[2] = meta[3] * ncols

\* result of a parse: the records, the error, what is left unread, and how
\* many records the loop has retained
Parsed(st, records, err, rest) ==
    [st |-> st, records |-> records, err |-> err, rest |-> rest,
     retained |-> Len(records)]

\* for ipcReader.Next() { records = append(records, rec) }; ipcReader.Err()
RECURSIVE ReadRecords(_, _, _, _)
NextRecord(m, eof, schema, records) ==
    IF m.kind = "block" THEN Parsed("block", <<>>, "nil", <<>>)
    ELSE IF m.kind = "eos" THEN Parsed("ret", records, "nil", m.rest)
    ELSE IF m.kind = "err" \/ ~IsBatchMeta(m.meta, Len(schema))
         THEN [Parsed("ret", <<>>, "error reading IPC records", m.rest)
                  EXCEPT !.retained = Len(records)]
    ELSE ReadRecords(m.rest, eof, schema,
             Append(records, [schema |-> schema,
                              rows |-> Chunk(m.body, Len(schema), m.meta[3])]))

ReadRecords(s, eof, schema, records) == NextRecord(Message(s, eof), eof, schema, records)

\* ipc.NewReader reads the schema block m, the loop reads the data blocks
NewReader(m, eof) ==
    IF m.kind = "block" THEN Parsed("block", <<>>, "nil", <<>>)
    ELSE IF m.kind # "msg" \/ ~IsSchemaMeta(m.meta)
         THEN Parsed("ret", <<>>, "failed to create IPC reader", m.rest)
    ELSE ReadRecords(m.rest, eof, SubSeq(m.meta, 4, Len(m.meta)), <<>>)

ReadStream(s, eof) == NewReader(Message(s, eof), eof)

\* parseArrowIPCFromReader handing the reader to the stream reader as it
\* stands, without the continuation marker in front
parseArrowIPCFromReaderBare(s, eof) == ReadStream(s, eof)

\* parseArrowIPCFromReader: the reader stands right after the continuation
\* marker, which is prepended again for the stream reader
parseArrowIPCFromReader(s, eof) == ReadStream(Marker \o s, eof)

\* parseArrowIPC handing an empty payload to the stream reader as well
parseArrowIPCStrict(data) == ReadStream(data, TRUE)

\* parseArrowIPC: the old path, parsing a payload already held in memory
parseArrowIPC(data) ==
    IF Len(data) = 0 THEN Parsed("ret", <<>>, "nil", <<>>)
    ELSE ReadStream(data, TRUE)

\* ------------------------------------------------------------------- state
VARIABLES
    closed,      \* Conn.closed
    tx,          \* Conn.tx
    sockClosed,  \* Close has been called on the net.Conn
    unread,      \* bytes sent by the server and not yet read by the client
    peerEOF,     \* the server has closed its end of the connection
    nsent,       \* how many frames have been written to the socket
    frame,       \* the last frame written to the socket
    srvLast,     \* what the server sent in answer to the last frame
    failed,      \* an Exec or Query has returned a protocol or I/O error
    handles,     \* the tx values handed out by BeginTx: TRUE while t.c # nil
    rs,          \* the Rows the caller holds (the last one Query returned)
    yielded,     \* the rows Rows.Next has delivered from rs so far
    ret,         \* what the last call returned
    pc,          \* "running", "blocked" (a read never returns), "panicked",
                 \* "dialed" (Connect not yet called), "failed" (no Conn returned)
    password,    \* the password of the DSN, <<>> when it holds none
    auth,        \* Connect: what the server sent, the I/O of authenticate in order
    cin,         \* frame codec exercised alone: the input
    cout,        \* frame codec exercised alone: the output
    stmt,        \* the Stmt the caller holds (the last one Prepare returned)
    result,      \* the driver.Result the caller holds (the last one Exec returned)
    other,       \* a second Session of the program, as its caller left it
    orphans      \* batches the decoder retained that no holder is left to release

wire == <<unread, peerEOF, nsent, frame, srvLast, failed, pc>>
codec == <<cin, cout>>
dial == <<password, auth>>
aside == <<stmt, other, orphans>>
vars == <<closed, tx, sockClosed, wire, handles, rs, yielded, ret, codec, dial, aside, result>>

\* texts of the literal commands
SqlBegin == <<66, 69, 71, 73, 78, 32, 84, 82, 65, 78, 83, 65, 67, 84, 73, 79, 78>>
SqlCommit == <<67, 79, 77, 77, 73, 84, 32, 84, 82, 65, 78, 83, 65, 67, 84, 73, 79, 78>>
SqlRollback == <<82, 79, 76, 76, 66, 65, 67, 75>>
SqlSelect1 == <<83, 69, 76, 69, 67, 84, 32, 49>>

\* ---------------------------------------------------------- result cursor
\* released counts, batch by batch, the calls of Release made by Rows
NoRows == [exists |-> FALSE, records |-> <<>>, recordIdx |-> 0, rowIdx |-> 0,
           columns |-> <<>>, closed |-> FALSE, released |-> <<>>]

newRowsFromArrow(records) ==
    [exists |-> TRUE, records |-> records, recordIdx |-> 0, rowIdx |-> 0,
     columns |-> IF Len(records) > 0
                 THEN [i \in 1..Len(records[1].schema) |-> FieldName(records[1].schema[i])]
                 ELSE <<>>,
     closed |-> FALSE,
     released |-> [i \in 1..Len(records) |-> 0]]

\* column type tags of the schema block; the type switch knows 1..18
SupportedTypes == 1..18

\* getValueFromColumn with the type switch first: a null cell of a supported
\* column comes out as the zero value of its type
getValueFromColumnZero(type, cell) ==
    IF type \in SupportedTypes THEN [err |-> "nil", isNil |-> FALSE, val |-> cell]
    ELSE IF cell = 0 THEN [err |-> "nil", isNil |-> TRUE, val |-> 0]
    ELSE [err |-> "unsupported Arrow type", isNil |-> TRUE, val |-> 0]

\* getValueFromColumn: null first, then the type switch
getValueFromColumn(type, cell) ==
    IF cell = 0 THEN [err |-> "nil", isNil |-> TRUE, val |-> 0]
    ELSE IF type \in SupportedTypes THEN [err |-> "nil", isNil |-> FALSE, val |-> cell]
    ELSE [err |-> "unsupported Arrow type", isNil |-> TRUE, val |-> 0]

\* the values of one row, and the first error met while extracting them
RowValues(record, rowIdx) ==
    [i \in 1..Len(record.schema) |->
        getValueFromColumn(FieldType(record.schema[i]), record.rows[rowIdx + 1][i])]

RowError(record, rowIdx) ==
    LET vals == RowValues(record, rowIdx)
        bad  == {i \in 1..Len(vals) : vals[i].err # "nil"}
    IN  IF bad = {} THEN "nil"
        ELSE vals[CHOOSE i \in bad : \A j \in bad : i <= j].err

\* the loop of Rows.Next keeping rowIdx when it moves to the next record
RECURSIVE NextLoopKeepsRowIdx(_, _, _)
NextLoopKeepsRowIdx(records, recordIdx, rowIdx) ==
    IF recordIdx < Len(records)
    THEN LET record == records[recordIdx + 1]
         IN  IF rowIdx < Len(record.rows)
             THEN IF RowError(record, rowIdx) # "nil"
                  THEN [err |-> RowError(record, rowIdx), recordIdx |-> recordIdx,
                        rowIdx |-> rowIdx, dest |-> <<>>]
                  ELSE [err |-> "nil", recordIdx |-> recordIdx, rowIdx |-> rowIdx + 1,
                        dest |-> RowValues(record, rowIdx)]
             ELSE NextLoopKeepsRowIdx(records, recordIdx + 1, rowIdx)
    ELSE [err |-> "EOF", recordIdx |-> recordIdx, rowIdx |-> rowIdx, dest |-> <<>>]

\* the loop of Rows.Next moving to the next record as soon as the last row
\* of a record has been delivered
RECURSIVE NextLoopEager(_, _, _)
NextLoopEager(records, recordIdx, rowIdx) ==
    IF recordIdx < Len(records)
    THEN LET record == records[recordIdx + 1]
         IN  IF rowIdx < Len(record.rows)
             THEN IF RowError(record, rowIdx) # "nil"
                  THEN [err |-> RowError(record, rowIdx), recordIdx |-> recordIdx,
                        rowIdx |-> rowIdx, dest |-> <<>>]
                  ELSE IF rowIdx + 1 = Len(record.rows)
                  THEN [err |-> "nil", recordIdx |-> recordIdx + 1, rowIdx |-> 0,
                        dest |-> RowValues(record, rowIdx)]
                  ELSE [err |-> "nil", recordIdx |-> recordIdx, rowIdx |-> rowIdx + 1,
                        dest |-> RowValues(record, rowIdx)]
             ELSE NextLoopEager(records, recordIdx + 1, 0)
    ELSE [err |-> "EOF", recordIdx |-> recordIdx, rowIdx |-> rowIdx, dest |-> <<>>]

\* the loop of Rows.Next stepping over a row it could not extract
RECURSIVE NextLoopSkipsBadRow(_, _, _)
NextLoopSkipsBadRow(records, recordIdx, rowIdx) ==
    IF recordIdx < Len(records)
    THEN LET record == records[recordIdx + 1]
         IN  IF rowIdx < Len(record.rows)
             THEN IF RowError(record, rowIdx) # "nil"
                  THEN [err |-> RowError(record, rowIdx), recordIdx |-> recordIdx,
                        rowIdx |-> rowIdx + 1, dest |-> <<>>]
                  ELSE [err |-> "nil", recordIdx |-> recordIdx, rowIdx |-> rowIdx + 1,
                        dest |-> RowValues(record, rowIdx)]
             ELSE NextLoopSkipsBadRow(records, recordIdx + 1, 0)
    ELSE [err |-> "EOF", recordIdx |-> recordIdx, rowIdx |-> rowIdx, dest |-> <<>>]

\* the loop of Rows.Next from the cursor (recordIdx, rowIdx)
RECURSIVE NextLoop(_, _, _)
NextLoop(records, recordIdx, rowIdx) ==
    IF recordIdx < Len(records)
    THEN LET record == records[recordIdx + 1]
         IN  IF rowIdx < Len(record.rows)
             THEN IF RowError(record, rowIdx) # "nil"
                  THEN [err |-> RowError(record, rowIdx), recordIdx |-> recordIdx,
                        rowIdx |-> rowIdx, dest |-> <<>>]
                  ELSE [err |-> "nil", recordIdx |-> recordIdx, rowIdx |-> rowIdx + 1,
                        dest |-> RowValues(record, rowIdx)]
             ELSE NextLoop(records, recordIdx + 1, 0)
    ELSE [err |-> "EOF", recordIdx |-> recordIdx, rowIdx |-> rowIdx, dest |-> <<>>]

RowsNextResult(r) ==
    IF r.closed THEN [err |-> "EOF", recordIdx |-> r.recordIdx, rowIdx |-> r.rowIdx,
                      dest |-> <<>>]
    ELSE NextLoop(r.records, r.recordIdx, r.rowIdx)

\* Rows.Close releasing only the batches Next has not gone past
RowsCloseRemaining(r) ==
    IF r.closed THEN r
    ELSE [r EXCEPT !.closed = TRUE, !.records = <<>>,
                   !.released = [i \in 1..Len(r.records) |->
                                    IF i > r.recordIdx THEN r.released[i] + 1
                                    ELSE r.released[i]]]

RowsCloseResult(r) ==
    IF r.closed THEN r
    ELSE [r EXCEPT !.closed = TRUE, !.records = <<>>,
                   !.released = [i \in 1..Len(r.records) |-> r.released[i] + 1]]

\* ------------------------------------------------------------------ server
\* What the peer may send in answer to one frame: [bytes, eof], eof when it
\* closes the connection after the bytes.
Streams == {
    EncStream(<<5>>, << <<<<7>>, <<8>>>>, <<>>, <<<<9>>>> >>),
    EncStream(<<5>>, <<>>) }

WellFormed == Streams \cup {
    <<43, 79, 75>> \o CRLF,                                 \* +OK
    <<45, 110, 111>> \o CRLF,                               \* -no
    <<58, 49>> \o CRLF,                                     \* :1
    <<36, 45, 49>> \o CRLF,                                 \* $-1
    <<36, 50>> \o CRLF \o <<104, 105>> \o CRLF }            \* $2 hi

Malformed == {
    <<63, 120>>,                                            \* ?x
    <<255, 0, 0, 0, 120>>,                                  \* bad marker
    <<36, 120>> \o CRLF \o <<104, 105>> \o CRLF,            \* $x hi
    EncSchema(<<5>>) \o EncMessage(<<9, 0, 0>>, <<>>) \o EncBatch(<< <<7>> >>) \o EOS,
    <<36, 45, 50>> \o CRLF }                                \* $-2

Truncated == {
    <<43, 79>>,                                             \* +O
    Take(EncStream(<<5>>, << <<<<7>>>> >>), 20) }

Responses ==
    {[bytes |-> b, eof |-> FALSE] : b \in WellFormed \cup Malformed \cup Truncated}
    \cup {[bytes |-> b, eof |-> TRUE] : b \in Truncated}

\* the environment of one conn.Write: whether the write succeeds and what
\* the server then sends.  A write can only fail once the peer has closed.
SrvChoices ==
    IF peerEOF
    THEN {[wok |-> w, bytes |-> <<>>, eof |-> TRUE] : w \in BOOLEAN}
    ELSE {[wok |-> TRUE, bytes |-> r.bytes, eof |-> r.eof] : r \in Responses}

\* ----------------------------------------------------------------- session
\* the outcome of a call: how it ended (st), its error, the response type it
\* decoded, the frame it wrote (<<>> when it wrote none), and the wire after it
Outcome(st, err, typ, msg, wrote, unr, eof, records, srv) ==
    [st |-> st, err |-> err, typ |-> typ, msg |-> msg, wrote |-> wrote,
     unread |-> unr, eof |-> eof, records |-> records, srv |-> srv, retained |-> 0]

NoSrv == [bytes |-> <<>>, eof |-> FALSE, none |-> TRUE]
SrvSent(srv) == [bytes |-> srv.bytes, eof |-> srv.eof, none |-> FALSE]

BadConn == Outcome("ret", "ErrBadConn", "", <<>>, <<>>, unread, peerEOF, <<>>, srvLast)

\* the frame f was written; rr is what readResponse made of the reader
Response(f, rr, srv) ==
    Outcome(rr.st, IF rr.err # "nil" THEN "failed to read response" ELSE "nil",
            rr.typ, rr.data, f, rr.rest, srv.eof, <<>>, SrvSent(srv))

\* sendCommand followed by readResponse on the Conn's reader
RoundTrip(cmd, sql, srv) ==
    IF ~srv.wok
    THEN Outcome("ret", "failed to send command", "", <<>>, <<>>, unread, peerEOF,
                 <<>>, srvLast)
    ELSE Response(sendCommand(cmd, sql), readResponse(unread \o srv.bytes, srv.eof), srv)

\* the outcome rt of the round trip once the batches were parsed into p
Drained(rt, p) ==
    [rt EXCEPT !.st = p.st, !.unread = p.rest, !.retained = p.retained,
               !.err = IF p.err # "nil" THEN "failed to parse Arrow IPC" ELSE "nil"]

WithRecords(rt, p) ==
    [rt EXCEPT !.st = p.st, !.unread = p.rest, !.records = p.records,
               !.retained = p.retained,
               !.err = IF p.err # "nil" THEN "failed to parse Arrow IPC" ELSE "nil"]

\* ExecContext past the round trip, returning without draining a batch stream
ExecResponseNoDrain(rt) ==
    IF rt.st # "ret" \/ rt.err # "nil" THEN rt
    ELSE IF rt.typ = "error" THEN [rt EXCEPT !.err = "luna error"]
    ELSE rt

\* ExecContext past the round trip, taking a '-' frame for a success
ExecResponseErrorIgnored(rt) ==
    IF rt.st # "ret" \/ rt.err # "nil" THEN rt
    ELSE IF rt.typ = "arrow-stream"
         THEN Drained(rt, parseArrowIPCFromReader(rt.unread, rt.eof))
    ELSE rt

\* ExecContext past the round trip
ExecResponse(rt) ==
    IF rt.st # "ret" \/ rt.err # "nil" THEN rt
    ELSE IF rt.typ = "error" THEN [rt EXCEPT !.err = "luna error"]
    ELSE IF rt.typ = "arrow-stream"
         THEN Drained(rt, parseArrowIPCFromReader(rt.unread, rt.eof))
    ELSE rt

\* ExecContext that returns without draining a batch stream
ExecContextNoDrain(query, srv) ==
    IF closed THEN BadConn ELSE ExecResponseNoDrain(RoundTrip(cmdExecute, query, srv))

\* ExecContext without the check of c.closed
ExecContextUnchecked(query, srv) == ExecResponse(RoundTrip(cmdExecute, query, srv))

ExecContext(query, srv) ==
    IF closed THEN BadConn ELSE ExecResponse(RoundTrip(cmdExecute, query, srv))

\* QueryContext past the round trip, handing out a cursor that would decode
\* the batch stream later: the stream stays on the socket
QueryResponseLazy(rt) ==
    IF rt.st # "ret" \/ rt.err # "nil" THEN rt
    ELSE IF rt.typ = "error" THEN [rt EXCEPT !.err = "luna error"]
    ELSE IF rt.typ = "arrow-stream" THEN rt
    ELSE WithRecords(rt, [parseArrowIPC(rt.msg) EXCEPT !.rest = rt.unread])

\* QueryContext past the round trip
QueryResponse(rt) ==
    IF rt.st # "ret" \/ rt.err # "nil" THEN rt
    ELSE IF rt.typ = "error" THEN [rt EXCEPT !.err = "luna error"]
    ELSE IF rt.typ = "arrow-stream"
         THEN WithRecords(rt, parseArrowIPCFromReader(rt.unread, rt.eof))
    ELSE WithRecords(rt, [parseArrowIPC(rt.msg) EXCEPT !.rest = rt.unread])

\* QueryContext from the send on: what an open Conn does
QueryOpen(query, srv) == QueryResponse(RoundTrip(cmdQuery, query, srv))

\* QueryContext without the check of c.closed
QueryContextUnchecked(query, srv) == QueryOpen(query, srv)

QueryContext(query, srv) ==
    IF closed THEN BadConn ELSE QueryOpen(query, srv)

\* a protocol or I/O error: the write failed, the response could not be
\* read, or the batch stream could not be decoded
IsProtocolError(o) ==
    /\ o.st = "ret"
    /\ \/ o.err \in {"failed to send command", "failed to read response"}
       \/ o.err = "failed to parse Arrow IPC" /\ o.typ = "arrow-stream"

\* the part of a call's outcome that is the same for every operation
Wire(o) ==
    /\ nsent' = IF o.wrote = <<>> THEN nsent ELSE nsent + 1
    /\ frame' = IF o.wrote = <<>> THEN frame ELSE o.wrote
    /\ unread' = o.unread
    /\ peerEOF' = o.eof
    /\ srvLast' = o.srv
    /\ pc' = IF o.st = "ret" THEN "running"
             ELSE IF o.st = "block" THEN "blocked" ELSE "panicked"

Returned(op, o) ==
    [op |-> op, err |-> IF o.st = "ret" THEN o.err ELSE o.st, typ |-> o.typ,
     msg |-> IF o.st = "ret" /\ o.err = "luna error" THEN o.msg ELSE <<>>]

Failure(op, err) == [op |-> op, err |-> err, typ |-> "", msg |-> <<>>]

\* the caller may issue a command
MayCall == pc = "running" /\ nsent < MaxCmds

SqlTexts == {<<83>>}

\* the batches a call of ExecContext leaves behind: it keeps none of the
\* records parseArrowIPCFromReader has retained
Discarded(o) == o.retained

\* the batches a call of QueryContext leaves behind: none when it hands the
\* records to a Rows, all that were retained when it returns an error
Undelivered(o) == IF o.st = "ret" /\ o.err = "nil" THEN 0 ELSE o.retained

\* the batches of a Rows on which Release has not been called
Unreleased(r) == Cardinality({i \in 1..Len(r.released) : r.released[i] = 0})

\* no Result held
NoResult == [exists |-> FALSE, rowsAffected |-> 0]

\* the Result of ExecContext taking the count from an Integer response
ExecResultFromInteger(o) ==
    [exists |-> TRUE, rowsAffected |-> IF o.typ = "int" THEN Atoi(o.msg).val ELSE 0]

\* the Result of ExecContext: &result{rowsAffected: 0}
ExecResult(o) == [exists |-> TRUE, rowsAffected |-> 0]

ExecReturned(o) ==
    /\ Wire(o)
    /\ failed' = (failed \/ IsProtocolError(o))
    /\ ret' = Returned("Exec", o)
    /\ result' = IF o.st = "ret" /\ o.err = "nil" THEN ExecResult(o) ELSE result
    /\ orphans' = orphans + Discarded(o)
    /\ UNCHANGED <<closed, tx, sockClosed, handles, rs, yielded, codec, dial, stmt, other>>

ExecWith(query, srv) == ExecReturned(ExecContext(query, srv))

Exec(query) == MayCall /\ \E srv \in SrvChoices : ExecWith(query, srv)

QueryReturned(o) ==
    /\ Wire(o)
    /\ failed' = (failed \/ IsProtocolError(o))
    /\ ret' = Returned("Query", o)
    /\ IF o.st = "ret" /\ o.err = "nil"
       THEN rs' = newRowsFromArrow(o.records) /\ yielded' = <<>>
       ELSE UNCHANGED <<rs, yielded>>
    /\ orphans' = orphans + Undelivered(o)
    /\ UNCHANGED <<closed, tx, sockClosed, handles, codec, dial, stmt, other, result>>

QueryWith(query, srv) == QueryReturned(QueryContext(query, srv))

Query(query) == MayCall /\ \E srv \in SrvChoices : QueryWith(query, srv)

\* Ping past the check of c.closed: the rows of SELECT 1 are closed at once
PingReturned(o) ==
    /\ Wire(o)
    /\ failed' = failed
    /\ ret' = Returned("Ping", o)
    /\ orphans' = orphans + IF o.st = "ret" /\ o.err = "nil"
                             THEN Unreleased(RowsCloseResult(newRowsFromArrow(o.records)))
                             ELSE Undelivered(o)

PingWith(srv) ==
    /\ IF closed
       THEN /\ ret' = Failure("Ping", "ErrBadConn")
            /\ UNCHANGED <<wire, orphans>>
       ELSE PingReturned(QueryContext(SqlSelect1, srv))
    /\ UNCHANGED <<closed, tx, sockClosed, handles, rs, yielded, codec, dial, stmt, other,
                   result>>

Ping == MayCall /\ \E srv \in SrvChoices : PingWith(srv)

BeginTxReturned(o) ==
    /\ Wire(o)
    /\ failed' = failed
    /\ ret' = Returned("BeginTx", o)
    /\ orphans' = orphans + Discarded(o)
    /\ IF o.st = "ret" /\ o.err = "nil"
       THEN tx' = TRUE /\ handles' = Append(handles, TRUE)
       ELSE UNCHANGED <<tx, handles>>

\* BeginTx past the check of c.tx: BEGIN TRANSACTION, then the flag
BeginTxSend == \E srv \in SrvChoices : BeginTxReturned(ExecContext(SqlBegin, srv))

\* BeginTx without the check of c.tx
BeginTxUnchecked ==
    /\ MayCall
    /\ BeginTxSend
    /\ UNCHANGED <<closed, sockClosed, rs, yielded, codec, dial, stmt, other, result>>

BeginTx ==
    /\ MayCall
    /\ IF tx
       THEN /\ ret' = Failure("BeginTx", "already an open transaction")
            /\ UNCHANGED <<wire, tx, handles, orphans>>
       ELSE BeginTxSend
    /\ UNCHANGED <<closed, sockClosed, rs, yielded, codec, dial, stmt, other, result>>

\* Commit or Rollback clearing the flag only once its statement has succeeded
EndTxFlagOnSuccess(i, op, o) ==
    /\ Wire(o)
    /\ failed' = failed
    /\ ret' = Returned(op, o)
    /\ orphans' = orphans + Discarded(o)
    /\ tx' = IF o.st = "ret" /\ o.err = "nil" THEN FALSE ELSE tx
    /\ handles' = IF o.st = "ret" THEN [handles EXCEPT ![i] = FALSE] ELSE handles

\* Commit or Rollback past the panic check: the flag is cleared, the statement
\* executed, and the handle detached once ExecContext has returned
EndTxReturned(i, op, o) ==
    /\ Wire(o)
    /\ failed' = failed
    /\ ret' = Returned(op, o)
    /\ orphans' = orphans + Discarded(o)
    /\ tx' = FALSE
    /\ handles' = IF o.st = "ret" THEN [handles EXCEPT ![i] = FALSE] ELSE handles

\* tx.Commit and tx.Rollback clearing the flag of the Session before the
\* check: a handle already ended ends the transaction begun after it
EndTxClearsFirst(i, op, query) ==
    /\ pc = "running"
    /\ i \in DOMAIN handles
    /\ IF ~handles[i] \/ ~tx
       THEN /\ pc' = "panicked"
            /\ ret' = Failure(op, "panic")
            /\ tx' = FALSE
            /\ UNCHANGED <<unread, peerEOF, nsent, frame, srvLast, failed, handles,
                           orphans>>
       ELSE MayCall /\ \E srv \in SrvChoices : EndTxReturned(i, op, ExecContext(query, srv))
    /\ UNCHANGED <<closed, sockClosed, rs, yielded, codec, dial, stmt, other, result>>

\* tx.Commit and tx.Rollback on the i-th handle
EndTx(i, op, query) ==
    /\ pc = "running"
    /\ i \in DOMAIN handles
    /\ IF ~handles[i] \/ ~tx
       THEN /\ pc' = "panicked"
            /\ ret' = Failure(op, "panic")
            /\ UNCHANGED <<unread, peerEOF, nsent, frame, srvLast, failed, tx, handles,
                           orphans>>
       ELSE MayCall /\ \E srv \in SrvChoices : EndTxReturned(i, op, ExecContext(query, srv))
    /\ UNCHANGED <<closed, sockClosed, rs, yielded, codec, dial, stmt, other, result>>

Commit(i) == EndTx(i, "Commit", SqlCommit)
Rollback(i) == EndTx(i, "Rollback", SqlRollback)

\* Close that accepts a second call
CloseAgain ==
    /\ pc = "running"
    /\ closed' = TRUE
    /\ sockClosed' = TRUE
    /\ ret' = Failure("Close", "nil")
    /\ UNCHANGED <<tx, wire, handles, rs, yielded, codec, dial, aside, result>>

\* Close that also drops the batches of the ResultSet the caller holds
CloseDropsRows ==
    /\ pc = "running"
    /\ IF closed
       THEN /\ ret' = Failure("Close", "connection already closed")
            /\ UNCHANGED <<closed, sockClosed, rs>>
       ELSE /\ closed' = TRUE
            /\ sockClosed' = TRUE
            /\ rs' = [rs EXCEPT !.records = <<>>]
            /\ ret' = Failure("Close", "nil")
    /\ UNCHANGED <<tx, wire, handles, yielded, codec, dial, aside, result>>

Close ==
    /\ pc = "running"
    /\ IF closed
       THEN /\ ret' = Failure("Close", "connection already closed")
            /\ UNCHANGED <<closed, sockClosed>>
       ELSE /\ closed' = TRUE
            /\ sockClosed' = TRUE
            /\ ret' = Failure("Close", "nil")
    /\ UNCHANGED <<tx, wire, handles, rs, yielded, codec, dial, aside, result>>

NextReturned(n) ==
    /\ rs' = [rs EXCEPT !.recordIdx = n.recordIdx, !.rowIdx = n.rowIdx]
    /\ yielded' = IF n.err = "nil" THEN Append(yielded, n.dest) ELSE yielded
    /\ ret' = Failure("Next", n.err)

RowsNext ==
    /\ pc = "running"
    /\ rs.exists
    /\ NextReturned(RowsNextResult(rs))
    /\ UNCHANGED <<closed, tx, sockClosed, wire, handles, codec, dial, aside, result>>

RowsClose ==
    /\ pc = "running"
    /\ rs.exists
    /\ rs' = RowsCloseResult(rs)
    /\ ret' = Failure("RowsClose", "nil")
    /\ UNCHANGED <<closed, tx, sockClosed, wire, handles, yielded, codec, dial, aside, result>>

NoCodec == [kind |-> "none"]

\* no Stmt held
NoStmt == [exists |-> FALSE, query |-> <<>>, closed |-> FALSE]

\* the fields of the Session in hand and what its caller holds
Session ==
    [closed |-> closed, tx |-> tx, sockClosed |-> sockClosed, unread |-> unread,
     peerEOF |-> peerEOF, nsent |-> nsent, frame |-> frame, srvLast |-> srvLast,
     failed |-> failed, handles |-> handles, rs |-> rs, yielded |-> yielded,
     ret |-> ret, pc |-> pc]

\* a Session right after Connector.Connect without a credential
Fresh ==
    [closed |-> FALSE, tx |-> FALSE, sockClosed |-> FALSE, unread |-> <<>>,
     peerEOF |-> FALSE, nsent |-> 0, frame |-> <<>>, srvLast |-> NoSrv,
     failed |-> FALSE, handles |-> <<>>, rs |-> NoRows, yielded |-> <<>>,
     ret |-> Failure("Connect", "nil"), pc |-> "running"]

\* what the server does around the handshake: the bytes it sends on connect,
\* whether it then closes, and its answer to the client's frame
Silent == [greeting |-> <<>>, geof |-> FALSE, wok |-> TRUE, verdict |-> <<>>, veof |-> FALSE]

\* Connect has not been called / Connect made no handshake with a silent server
NotConnected == [called |-> FALSE, srv |-> Silent, log |-> <<>>, cause |-> "nil"]
NoHandshake == [called |-> TRUE, srv |-> Silent, log |-> <<>>, cause |-> "nil"]

\* the state of a Conn right after Connector.Connect without a credential
InitConn ==
    /\ closed = FALSE
    /\ tx = FALSE
    /\ sockClosed = FALSE
    /\ unread = <<>>
    /\ peerEOF = FALSE
    /\ nsent = 0
    /\ frame = <<>>
    /\ srvLast = NoSrv
    /\ failed = FALSE
    /\ handles = <<>>
    /\ rs = NoRows
    /\ yielded = <<>>
    /\ ret = Failure("Connect", "nil")
    /\ pc = "running"
    /\ password = <<>>
    /\ auth = NoHandshake
    /\ stmt = NoStmt
    /\ result = NoResult
    /\ other = Fresh
    /\ orphans = 0

Init == InitConn /\ cin = NoCodec /\ cout = NoCodec

Next ==
    \/ \E q \in SqlTexts : Exec(q)
    \/ \E q \in SqlTexts : Query(q)
    \/ Ping
    \/ BeginTx
    \/ \E i \in 1..MaxCmds : Commit(i)
    \/ \E i \in 1..MaxCmds : Rollback(i)
    \/ Close
    \/ RowsNext
    \/ RowsClose

Spec == Init /\ [][Next]_vars

\* ------------------------------------------- the result cursor on a stream
\* One Query answered by a well-formed stream of up to MaxBatches data blocks
\* of up to MaxBatchRows rows, every row a distinct value, then the cursor.
BatchRows(i, n) == [j \in 1..n |-> <<10 * i + j>>]

BatchLists ==
    UNION {{[i \in 1..k |-> BatchRows(i, f[i])] : f \in [1..k -> 0..MaxBatchRows]}
           : k \in 0..MaxBatches}

QueryStream ==
    /\ pc = "running"
    /\ nsent = 0
    /\ \E bs \in BatchLists :
          QueryWith(<<83>>, [wok |-> TRUE, bytes |-> EncStream(<<5>>, bs), eof |-> FALSE])

NextRows ==
    \/ QueryStream
    \/ RowsNext
    \/ RowsClose

SpecRows == Init /\ [][NextRows]_vars

\* --------------------------------------------- the result cursor on cells
\* One Query answered by a stream whose schema declares up to MaxCols
\* columns, with no data block or one data block of up to MaxCellRows rows
\* of null and non-null cells; then the cursor.  A single column takes every
\* type tag of the switch and one outside it; several columns are drawn
\* from an Int64, a String and a column of a type outside the switch.
CellColumns == {32 + 5, 64 + 12, 96 + 19}

RECURSIVE DistinctSeqs(_, _)
DistinctSeqs(S, n) ==
    IF n = 0 THEN {<<>>}
    ELSE UNION {{Append(q, x) : x \in S \ {q[i] : i \in 1..Len(q)}}
                : q \in DistinctSeqs(S, n - 1)}

CellSchemas ==
    {<<32 + t>> : t \in SupportedTypes \cup {19}}
    \cup UNION {DistinctSeqs(CellColumns, n) : n \in 2..MaxCols}

CellRowLists(n) == UNION {[1..k -> [1..n -> {0, 7}]] : k \in 0..MaxCellRows}

CellBatchLists(n) == {<<>>} \cup {<<rows>> : rows \in CellRowLists(n)}

QueryCells ==
    /\ pc = "running"
    /\ nsent = 0
    /\ \E f \in CellSchemas : \E bs \in CellBatchLists(Len(f)) :
          QueryWith(<<83>>, [wok |-> TRUE, bytes |-> EncStream(f, bs), eof |-> FALSE])

\* Rows.Columns with the names dropped by Close
ColumnsNilAfterClose ==
    /\ pc = "running"
    /\ rs.exists
    /\ ret' = [op |-> "Columns", err |-> "nil", typ |-> "",
               msg |-> IF rs.closed THEN <<>> ELSE rs.columns]
    /\ UNCHANGED <<closed, tx, sockClosed, wire, handles, rs, yielded, codec, dial, aside, result>>

\* Rows.Columns
RowsColumns ==
    /\ pc = "running"
    /\ rs.exists
    /\ ret' = [op |-> "Columns", err |-> "nil", typ |-> "", msg |-> rs.columns]
    /\ UNCHANGED <<closed, tx, sockClosed, wire, handles, rs, yielded, codec, dial, aside, result>>

NextCells ==
    \/ QueryCells
    \/ RowsNext
    \/ RowsClose
    \/ RowsColumns

SpecCells == Init /\ [][NextCells]_vars

\* ------------------------------------- the result cursor on a failing cell
\* One Query answered by a stream of one or two data blocks of up to
\* MaxCellRows rows, with a column of a type outside the switch, alone or
\* after an Int64 column; then the cursor.
StuckSchemas == {<<32 + 19>>, <<32 + 5, 64 + 19>>}

StuckBatchLists(n) == UNION {[1..k -> CellRowLists(n)] : k \in 1..2}

QueryStuck ==
    /\ pc = "running"
    /\ nsent = 0
    /\ \E f \in StuckSchemas : \E bs \in StuckBatchLists(Len(f)) :
          QueryWith(<<83>>, [wok |-> TRUE, bytes |-> EncStream(f, bs), eof |-> FALSE])

NextStuck ==
    \/ QueryStuck
    \/ RowsNext
    \/ RowsClose

SpecStuck == Init /\ [][NextStuck]_vars

\* -------------------------------------------------------------- Statement
\* Prepare, the Stmt it returns, and the Result of Exec.  Exec and Query
\* take the argument list of the caller: a sequence of values, the ordinal
\* of a value being its position.  The server answers in step.
StmtTexts == {<<83>>, <<84>>}
ArgLists == {<<>>, <<49>>, <<50>>, <<49, 50>>}

StmtSrv == {[wok |-> TRUE, bytes |-> b, eof |-> FALSE] : b \in WellFormed}

\* Conn.ExecContext writing the values of args after the text
ExecContextArgsBound(query, args, srv) == ExecContext(query \o args, srv)

\* Conn.ExecContext and Conn.QueryContext called with an argument list,
\* which neither of them reads
ExecContextArgs(query, args, srv) == ExecContext(query, srv)
QueryContextArgs(query, args, srv) == QueryContext(query, srv)

Prepare(query) ==
    /\ pc = "running"
    /\ IF closed
       THEN ret' = Failure("Prepare", "connection closed") /\ UNCHANGED stmt
       ELSE /\ stmt' = [exists |-> TRUE, query |-> query, closed |-> FALSE]
            /\ ret' = Failure("Prepare", "nil")
    /\ UNCHANGED <<closed, tx, sockClosed, wire, handles, rs, yielded, codec, dial,
                   other, orphans, result>>

\* what a call on a closed Stmt comes to: the error returned, or the panic
StmtMisuse(op, err) ==
    /\ ret' = Failure(op, err)
    /\ pc' = IF err = "panic" THEN "panicked" ELSE pc
    /\ UNCHANGED <<closed, tx, sockClosed, unread, peerEOF, nsent, frame, srvLast,
                   failed, handles, rs, yielded, codec, dial, aside, result>>

StmtClose ==
    /\ pc = "running"
    /\ stmt.exists
    /\ IF stmt.closed
       THEN StmtMisuse("StmtClose", "statement already closed")
       ELSE /\ stmt' = [stmt EXCEPT !.closed = TRUE]
            /\ ret' = Failure("StmtClose", "nil")
            /\ UNCHANGED <<closed, tx, sockClosed, wire, handles, rs, yielded, codec,
                           dial, other, orphans, result>>

NumInput ==
    /\ pc = "running"
    /\ stmt.exists
    /\ IF stmt.closed
       THEN StmtMisuse("NumInput", "panic")
       ELSE /\ ret' = [op |-> "NumInput", err |-> "nil", typ |-> "", msg |-> <<-1>>]
            /\ UNCHANGED <<closed, tx, sockClosed, wire, handles, rs, yielded, codec,
                           dial, aside, result>>

\* Stmt.ExecContext and Stmt.QueryContext
StmtExec(nargs) ==
    /\ pc = "running"
    /\ stmt.exists
    /\ IF stmt.closed
       THEN StmtMisuse("Exec", "statement is closed")
       ELSE /\ MayCall
            /\ \E srv \in StmtSrv :
                  ExecReturned(ExecContextArgs(stmt.query, nargs, srv))

StmtQuery(nargs) ==
    /\ pc = "running"
    /\ stmt.exists
    /\ IF stmt.closed
       THEN StmtMisuse("Query", "statement is closed")
       ELSE /\ MayCall
            /\ \E srv \in StmtSrv :
                  QueryReturned(QueryContextArgs(stmt.query, nargs, srv))

\* result.RowsAffected on the Result held
RowsAffected ==
    /\ pc = "running"
    /\ result.exists
    /\ ret' = [op |-> "RowsAffected", err |-> "nil", typ |-> "",
               msg |-> <<result.rowsAffected>>]
    /\ UNCHANGED <<closed, tx, sockClosed, wire, handles, rs, yielded, codec, dial,
                   aside, result>>

NextStmt ==
    \/ \E q \in StmtTexts : Prepare(q)
    \/ StmtClose
    \/ NumInput
    \/ \E a \in ArgLists : StmtExec(a)
    \/ \E a \in ArgLists : StmtQuery(a)
    \/ RowsAffected

SpecStmt == Init /\ [][NextStmt]_vars

\* ----------------------------------------------------------- two Sessions
\* Two Sessions of one program, each with a caller of its own.  The
\* variables hold the Session whose caller runs, `other` the Session of the
\* caller that waits; Switch is the scheduler passing from one caller to the
\* other, which it can do whenever the program has not been aborted, also
\* while the caller in hand is blocked in a read.  Each Session takes one
\* command, then its cursor and Close.
Resume(s) ==
    /\ closed' = s.closed
    /\ tx' = s.tx
    /\ sockClosed' = s.sockClosed
    /\ unread' = s.unread
    /\ peerEOF' = s.peerEOF
    /\ nsent' = s.nsent
    /\ frame' = s.frame
    /\ srvLast' = s.srvLast
    /\ failed' = s.failed
    /\ handles' = s.handles
    /\ rs' = s.rs
    /\ yielded' = s.yielded
    /\ ret' = s.ret
    /\ pc' = s.pc

\* two Sessions reading through one buffer: what one has left unread is
\* what the other finds
SwitchSharedReader ==
    /\ pc # "panicked"
    /\ other.pc # "panicked"
    /\ other' = Session
    /\ Resume([other EXCEPT !.unread = unread])
    /\ UNCHANGED <<codec, dial, stmt, orphans, result>>

Switch ==
    /\ pc # "panicked"
    /\ other.pc # "panicked"
    /\ other' = Session
    /\ Resume(other)
    /\ UNCHANGED <<codec, dial, stmt, orphans, result>>

NextPair ==
    \/ Switch
    \/ nsent = 0 /\ \E q \in SqlTexts : Query(q)
    \/ nsent = 0 /\ BeginTx
    \/ Close
    \/ RowsNext

SpecPair == Init /\ [][NextPair]_vars

\* ---------------------------------------------------------------- Connect
\* Connector.Connect after the dial: authenticate when the DSN holds a
\* password, then the Conn.  The connInitFn of OpenConnector does nothing.
Passwords == {<<>>, <<112, 119>>}
Salts == {1, 2}

Greetings == {
    <<>>,                                                   \* no credential configured
    <<43, 99>> \o CRLF,                                     \* +c
    <<45, 110, 111>> \o CRLF,                               \* -no
    <<58, 49>> \o CRLF,                                     \* :1
    <<43, 99>> }                                            \* +c cut short

Verdicts == {
    <<>>,
    <<43, 79, 75>> \o CRLF,                                 \* +OK
    <<45, 110, 111>> \o CRLF,                               \* -no
    <<63, 120>>,                                            \* ?x
    <<43>> }                                                \* + cut short

\* the server either stays connected, or closes after its greeting, in
\* which case the client's write may fail and no answer follows
HandshakeChoices ==
    {[greeting |-> g, geof |-> FALSE, wok |-> TRUE, verdict |-> v, veof |-> e]
        : g \in Greetings, v \in Verdicts, e \in BOOLEAN}
    \cup {[greeting |-> g, geof |-> TRUE, wok |-> w, verdict |-> <<>>, veof |-> TRUE]
        : g \in Greetings, w \in BOOLEAN}

\* bcrypt.GenerateFromPassword reduced to its shape: the 60 bytes "$2a$10$"
\* and 53 more that depend on the salt of the call and on the password
GenerateFromPassword(pw, salt) ==
    <<36, 50, 97, 36, 49, 48, 36>>
        \o [i \in 1..53 |-> 65 + (((IF pw = <<>> THEN 0 ELSE pw[1 + (i % Len(pw))]) + salt * i) % 26)]

\* fmt.Sprintf("$%d\r\n%s\r\n", len(hashedPassword), hashedPassword)
BulkFrame(h) == <<36>> \o FormatInt(Len(h)) \o CRLF \o h \o CRLF
authResp(pw, salt) == BulkFrame(GenerateFromPassword(pw, salt))

\* the I/O of authenticate, in order
Rd(b) == [io |-> "read", bytes |-> b]
Wr(b) == [io |-> "write", bytes |-> b]

\* how authenticate ended: st "ret" or "block", its error, its I/O, and what
\* its own bufio.Reader was left holding (own = TRUE) or the socket holds
AuthEnd(st, err, log, rest, eof, own) ==
    [st |-> st, err |-> err, log |-> log, rest |-> rest, eof |-> eof, own |-> own]
AuthBlocked(log) == AuthEnd("block", "nil", log, <<>>, FALSE, TRUE)

\* the result byte was '+' or '-': the rest of the line m, its error ignored
AuthVerdictLine(err, m, log, srv) ==
    IF m.st = "block" THEN AuthBlocked(log)
    ELSE AuthEnd("ret", err, Append(log, Rd(m.val)), m.rest, srv.veof, TRUE)

\* the result byte r
AuthResult(r, log, srv) ==
    IF r.st = "block" THEN AuthBlocked(log)
    ELSE IF r.err # "nil"
         THEN AuthEnd("ret", "failed to read auth result", log, r.rest, srv.veof, TRUE)
    ELSE IF r.val = <<43>>
         THEN AuthVerdictLine("nil", ReadString(r.rest, srv.veof), Append(log, Rd(r.val)), srv)
    ELSE IF r.val = <<45>>
         THEN AuthVerdictLine("authentication failed", ReadString(r.rest, srv.veof),
                              Append(log, Rd(r.val)), srv)
    ELSE AuthEnd("ret", "unexpected auth response", Append(log, Rd(r.val)), r.rest,
                 srv.veof, TRUE)

\* the challenge line l was read: the hash is written, the result read
AuthChallenge(l, log, pw, salt, srv) ==
    IF l.st = "block" THEN AuthBlocked(log)
    ELSE IF l.err # "nil"
         THEN AuthEnd("ret", "failed to read challenge", log, l.rest, srv.geof, TRUE)
    ELSE IF ~srv.wok
         THEN AuthEnd("ret", "failed to send auth response", Append(log, Rd(l.val)),
                      l.rest, srv.geof, TRUE)
    ELSE AuthResult(ReadByte(l.rest \o srv.verdict, srv.veof),
                    Append(Append(log, Rd(l.val)), Wr(authResp(pw, salt))), srv)

\* '-' in place of the challenge: the line m is read, its error ignored
AuthRefused(m, log, srv) ==
    IF m.st = "block" THEN AuthBlocked(log)
    ELSE AuthEnd("ret", "auth error", Append(log, Rd(m.val)), m.rest, srv.geof, TRUE)

\* the first byte b read from the server
AuthFirstByte(b, pw, salt, srv) ==
    IF b.st = "block" THEN AuthBlocked(<<>>)
    ELSE IF b.err # "nil"
         THEN AuthEnd("ret", "failed to read auth challenge", <<>>, b.rest, srv.geof, TRUE)
    ELSE IF b.val = <<45>>
         THEN AuthRefused(ReadString(b.rest, srv.geof), <<Rd(b.val)>>, srv)
    ELSE IF b.val # <<43>>
         THEN AuthEnd("ret", "nil", <<Rd(b.val)>>, b.rest, srv.geof, TRUE)
    ELSE AuthChallenge(ReadString(b.rest, srv.geof), <<Rd(b.val)>>, pw, salt, srv)

\* nothing is read or written: the socket holds what the server sent
AuthSkipped(srv) == AuthEnd("ret", "nil", <<>>, srv.greeting, srv.geof, FALSE)

\* authenticate reading a challenge whatever the password
authenticateAlways(pw, salt, srv) ==
    AuthFirstByte(ReadByte(srv.greeting, srv.geof), pw, salt, srv)

authenticate(pw, salt, srv) ==
    IF pw = <<>> THEN AuthSkipped(srv)
    ELSE AuthFirstByte(ReadByte(srv.greeting, srv.geof), pw, salt, srv)

\* what the Conn's reader can still read: bytes the reader of authenticate
\* had buffered are gone with it, and it buffers whatever has arrived
Unread(a) == IF a.own THEN {Drop(a.rest, k) : k \in 0..Len(a.rest)} ELSE {a.rest}

\* Connect past authenticate, returning the Conn without closing the socket
\* when authenticate failed
ConnectedSocketLeftOpen(a, srv) ==
    /\ auth' = [called |-> TRUE, srv |-> srv, log |-> a.log, cause |-> a.err]
    /\ IF a.st = "block"
       THEN /\ pc' = "blocked"
            /\ ret' = Failure("Connect", "block")
            /\ UNCHANGED <<sockClosed, unread, peerEOF>>
       ELSE /\ pc' = IF a.err # "nil" THEN "failed" ELSE "running"
            /\ ret' = Failure("Connect",
                              IF a.err # "nil" THEN "authentication failed" ELSE "nil")
            /\ \E u \in Unread(a) : unread' = u
            /\ peerEOF' = a.eof
            /\ UNCHANGED sockClosed
    /\ UNCHANGED <<closed, tx, nsent, frame, srvLast, failed, handles, rs, yielded,
                   codec, password, aside, result>>

\* Connect past authenticate, whose outcome is a
Connected(a, srv) ==
    /\ auth' = [called |-> TRUE, srv |-> srv, log |-> a.log, cause |-> a.err]
    /\ IF a.st = "block"
       THEN /\ pc' = "blocked"
            /\ ret' = Failure("Connect", "block")
            /\ UNCHANGED <<sockClosed, unread, peerEOF>>
       ELSE IF a.err # "nil"
       THEN /\ pc' = "failed"
            /\ sockClosed' = TRUE
            /\ ret' = Failure("Connect", "authentication failed")
            /\ UNCHANGED <<unread, peerEOF>>
       ELSE /\ pc' = "running"
            /\ ret' = Failure("Connect", "nil")
            /\ \E u \in Unread(a) : unread' = u
            /\ peerEOF' = a.eof
            /\ UNCHANGED sockClosed
    /\ UNCHANGED <<closed, tx, nsent, frame, srvLast, failed, handles, rs, yielded,
                   codec, password, aside, result>>

\* Connect handing the socket to authenticate whatever the password
ConnectAlwaysAuth ==
    /\ pc = "dialed"
    /\ \E srv \in HandshakeChoices : \E salt \in Salts :
          Connected(authenticateAlways(password, salt, srv), srv)

Connect ==
    /\ pc = "dialed"
    /\ \E srv \in HandshakeChoices : \E salt \in Salts :
          Connected(IF password = <<>> THEN AuthSkipped(srv)
                    ELSE authenticate(password, salt, srv), srv)

\* the first command on the new Conn
FirstQuery == nsent = 0 /\ \E q \in SqlTexts : Query(q)

InitDial ==
    /\ closed = FALSE
    /\ tx = FALSE
    /\ sockClosed = FALSE
    /\ unread = <<>>
    /\ peerEOF = FALSE
    /\ nsent = 0
    /\ frame = <<>>
    /\ srvLast = NoSrv
    /\ failed = FALSE
    /\ handles = <<>>
    /\ rs = NoRows
    /\ yielded = <<>>
    /\ ret = Failure("Dial", "nil")
    /\ pc = "dialed"
    /\ password \in Passwords
    /\ auth = NotConnected
    /\ stmt = NoStmt
    /\ result = NoResult
    /\ other = Fresh
    /\ orphans = 0
    /\ cin = NoCodec
    /\ cout = NoCodec

NextConnect ==
    \/ Connect
    \/ FirstQuery

SpecConnect == InitDial /\ [][NextConnect]_vars

\* ------------------------------------------- Query on a buffered payload
\* One Query answered by a response that is not a batch stream: a line or a
\* bulk string, empty, holding text, or holding a whole columnar stream, a
\* cut one, or one with a bad block after the first batch; then the cursor.
Payloads ==
    {<<43>> \o CRLF, <<43, 32>> \o CRLF, <<43, 79, 75>> \o CRLF,
     <<58>> \o CRLF, <<58, 49>> \o CRLF,
     <<36, 45, 49>> \o CRLF,
     BulkFrame(<<>>), BulkFrame(<<104, 105>>),
     BulkFrame(Take(EncStream(<<5>>, << <<<<7>>>> >>), 20)),
     BulkFrame(EncSchema(<<5>>) \o EncBatch(<< <<7>> >>) \o EncMessage(<<9, 0, 0>>, <<>>) \o EOS)}
    \cup {BulkFrame(EncStream(<<5>>, bs)) : bs \in BatchLists}

QueryPayload ==
    /\ pc = "running"
    /\ nsent = 0
    /\ \E b \in Payloads : QueryWith(<<83>>, [wok |-> TRUE, bytes |-> b, eof |-> FALSE])

NextPayload ==
    \/ QueryPayload
    \/ RowsNext
    \/ RowsColumns
    \/ RowsClose

SpecPayload == Init /\ [][NextPayload]_vars

\* ------------------------------------------------- the batches of a Session
\* Exec, Query and Ping on an open Session whose server answers with +OK, a
\* whole stream, or a stream with a bad block after its first batch.  The
\* caller closes the ResultSet it holds before it asks for another.
BadBlockAfterBatch ==
    EncSchema(<<5>>) \o EncBatch(<< <<7>> >>) \o EncMessage(<<9, 0, 0>>, <<>>) \o EOS

BatchSrv ==
    {[wok |-> TRUE, bytes |-> b, eof |-> FALSE]
        : b \in Streams \cup {<<43, 79, 75>> \o CRLF, BadBlockAfterBatch}}

ExecBatches == MayCall /\ \E srv \in BatchSrv : ExecWith(<<83>>, srv)

QueryBatches ==
    /\ MayCall
    /\ ~rs.exists \/ rs.closed
    /\ \E srv \in BatchSrv : QueryWith(<<83>>, srv)

PingBatches == MayCall /\ \E srv \in BatchSrv : PingWith(srv)

NextBatches ==
    \/ ExecBatches
    \/ QueryBatches
    \/ PingBatches
    \/ RowsNext
    \/ RowsClose

SpecBatches == Init /\ [][NextBatches]_vars

\* ----------------------------------------------- a Session and its Close
\* The commands of a Session, its transactions and the Statement prepared on
\* it, with Close called at any point between them.
NextClosing ==
    \/ \E q \in SqlTexts : Prepare(q)
    \/ \E q \in SqlTexts : Exec(q)
    \/ \E q \in SqlTexts : Query(q)
    \/ Ping
    \/ BeginTx
    \/ \E i \in 1..MaxCmds : Commit(i)
    \/ \E i \in 1..MaxCmds : Rollback(i)
    \/ StmtExec(<<49>>)
    \/ StmtQuery(<<49>>)
    \/ Close

SpecClosing == Init /\ [][NextClosing]_vars

\* ------------------------------------------------- the return of a call
\* Exec and Query on an open Session whose server answers each command with
\* one whole response, or with a cut one and then closes, or once with an
\* unknown leading byte followed by the head of a bulk string.
UnknownThenBulkHead == <<63, 36, 57>> \o CRLF                  \* ?$9

AnswerSrv ==
    IF peerEOF
    THEN {[wok |-> w, bytes |-> <<>>, eof |-> TRUE] : w \in BOOLEAN}
    ELSE {[wok |-> TRUE, bytes |-> b, eof |-> FALSE] : b \in WellFormed \cup {UnknownThenBulkHead}}
         \cup {[wok |-> TRUE, bytes |-> b, eof |-> TRUE] : b \in Truncated}

ExecAnswered == MayCall /\ \E srv \in AnswerSrv : ExecWith(<<83>>, srv)

QueryAnswered == MayCall /\ \E srv \in AnswerSrv : QueryWith(<<83>>, srv)

NextAnswered ==
    \/ ExecAnswered
    \/ QueryAnswered

SpecAnswered == Init /\ [][NextAnswered]_vars

\* ------------------------------------------------ the frame codec by itself
\* cin is drawn from the commands and the response byte streams below;
\* Encode applies sendCommand, Decode applies readResponse, ReadBack reads
\* the encoded frame as a bulk string.
SqlAlphabet == {13, 10, 36, 83}

SeqsUpTo(S, n) == UNION {[1..k -> S] : k \in 0..n}

LongTexts == {[i \in 1..n |-> 65] : n \in {7, 8, 97, 98}}

CodecSql == SeqsUpTo(SqlAlphabet, MaxSqlLen) \cup LongTexts

Tails == {
    <<>>,
    <<79, 75, 13, 10>>,                 \* OK
    <<45, 49, 13, 10>>,                 \* -1
    <<50, 13, 10, 104, 105, 13, 10>>,   \* 2 hi
    <<255, 255, 255, 1>>,
    <<255, 255, 0, 10>>,
    <<120, 13, 10>>,                    \* x
    <<45, 50, 13, 10>>,                 \* -2
    <<49, 13, 10, 104, 13, 10, 43>> }   \* 1 h and the first byte of a next frame

CodecInputs ==
    {[kind |-> "command", op |-> o, sql |-> q, bytes |-> <<>>, eof |-> FALSE]
        : o \in {"Query", "Execute"}, q \in CodecSql}
    \cup {[kind |-> "response", op |-> "", sql |-> <<>>, bytes |-> <<b>> \o t, eof |-> e]
        : b \in 0..255, t \in Tails, e \in BOOLEAN}

\* the prefix QueryContext and ExecContext pass to sendCommand
PrefixOf(op) == IF op = "Query" THEN cmdQuery ELSE cmdExecute

Encode ==
    /\ cin.kind = "command"
    /\ cout.kind = "none"
    /\ cout' = [kind |-> "encoded", writes |-> <<sendCommand(PrefixOf(cin.op), cin.sql)>>]
    /\ UNCHANGED <<closed, tx, sockClosed, wire, handles, rs, yielded, ret, cin, dial, aside, result>>

Decode ==
    /\ cin.kind = "response"
    /\ cout.kind = "none"
    /\ cout' = [kind |-> "decoded", r |-> readResponse(cin.bytes, cin.eof)]
    /\ UNCHANGED <<closed, tx, sockClosed, wire, handles, rs, yielded, ret, cin, dial, aside, result>>

ReadBack ==
    /\ cout.kind = "encoded"
    /\ cout' = [kind |-> "readback", r |-> readResponse(cout.writes[1], TRUE)]
    /\ UNCHANGED <<closed, tx, sockClosed, wire, handles, rs, yielded, ret, cin, dial, aside, result>>

InitCodec == InitConn /\ cin \in CodecInputs /\ cout = NoCodec

NextCodec ==
    \/ Encode
    \/ Decode
    \/ ReadBack

SpecCodec == InitCodec /\ [][NextCodec]_vars

\* ------------------------------------------------------------------ claims
ExecOps == {"Exec", "BeginTx", "Commit", "Rollback"}

\* the variants a leading response byte stands for
VariantsOf(b) ==
    IF b = 43 THEN {"ok"}
    ELSE IF b = 45 THEN {"error"}
    ELSE IF b = 58 THEN {"int"}
    ELSE IF b = 36 THEN {"null", "bulk"}
    ELSE IF b = 255 THEN {"arrow-stream"}
    ELSE {}

\* C1: no pipelining.  In every step that writes a command frame, every byte
\* the server sent in answer to earlier commands has already been read.
C1NoPipelining == [][nsent' # nsent => unread = <<>>]_vars

\* C2: once an Exec or Query has returned a protocol or I/O error, every
\* later Exec, Query, Ping and BeginTx fails without writing a frame and
\* without reading from the socket.
C2BrokenFailsFast ==
    [][(failed /\ ret'.op \in {"Exec", "Query", "Ping", "BeginTx"})
          => (ret'.err # "nil" /\ nsent' = nsent /\ unread' = unread)]_vars

\* C3: an Exec on a synchronized session whose response is a complete batch
\* stream returns only after reading the stream to its end marker, so nothing
\* of it stays unread, and the command that follows decodes the variant of
\* its own response's leading byte.
C3ExecDrainsStream ==
    [][/\ (/\ unread = <<>>
           /\ nsent' = nsent + 1
           /\ ret'.op \in ExecOps
           /\ srvLast'.bytes \in Streams)
          => (ret'.err = "nil" /\ ret'.typ = "arrow-stream" /\ unread' = <<>>)
       /\ (/\ ret.op \in ExecOps
           /\ ret.typ = "arrow-stream"
           /\ ret.err = "nil"
           /\ srvLast.bytes \in Streams
           /\ unread = <<>>
           /\ nsent' = nsent + 1
           /\ srvLast'.bytes # <<>>)
          => /\ ret'.typ # "" => ret'.typ \in VariantsOf(Head(srvLast'.bytes))
             /\ VariantsOf(Head(srvLast'.bytes)) = {}
                    => ret'.err = "failed to read response"]_vars

\* C3 witness: the second command, an Exec, was answered by a stream of three
\* blocks and returned with nothing left unread
C3Witness ==
    /\ ret.op = "Exec" /\ ret.typ = "arrow-stream" /\ ret.err = "nil"
    /\ srvLast.bytes = EncStream(<<5>>, << <<<<7>>, <<8>>>>, <<>>, <<<<9>>>> >>)
    /\ unread = <<>>
    /\ nsent >= 2

\* C4: for a stream of N data blocks totalling R rows, Rows.Next delivers
\* exactly the R rows in block order and row order, each once, skipping empty
\* blocks, and reports end-of-data only when all R have been delivered.
C4RowsInOrder ==
    (rs.exists /\ ~rs.closed)
        => LET bs  == CHOOSE b \in BatchLists : EncStream(<<5>>, b) = srvLast.bytes
               exp == Flatten(bs)
               got == [k \in 1..Len(yielded) |->
                          [i \in 1..Len(yielded[k]) |-> yielded[k][i].val]]
           IN  /\ Len(got) <= Len(exp)
               /\ got = Take(exp, Len(got))
               /\ (ret.op = "Next" /\ ret.err = "EOF") => got = exp
               /\ (ret.op = "Next" /\ ret.err = "nil") => Len(got) >= 1

\* C4 witness: all rows of three blocks, the middle one empty, were
\* delivered and Next then reported end-of-data
C4Witness ==
    /\ rs.exists /\ ~rs.closed
    /\ Len(rs.records) = 3
    /\ Len(rs.records[1].rows) = 2
    /\ Len(rs.records[2].rows) = 0
    /\ Len(rs.records[3].rows) = 2
    /\ Len(yielded) = 4
    /\ ret.op = "Next" /\ ret.err = "EOF"

HasLF(s) == \E i \in 1..Len(s) : s[i] = 10

\* C5: readResponse returns the variant of the leading byte: '+' Ok, '-'
\* Error, ':' Integer, '$' Null or BulkBytes, 0xFF FF FF FF BatchStream; any
\* other leading byte is a protocol error with no variant.
C5LeadingByte ==
    cout.kind = "decoded"
        => LET b == Head(cin.bytes)
               t == Tail(cin.bytes)
               r == cout.r
           IN  /\ r.typ # "" => (r.st = "ret" /\ r.err = "nil" /\ r.typ \in VariantsOf(b))
               /\ VariantsOf(b) = {}
                    => (r.st = "ret" /\ r.err = "unknown response type" /\ r.typ = "")
               /\ (b = 43 /\ HasLF(t)) => r.typ = "ok"
               /\ (b = 45 /\ HasLF(t)) => r.typ = "error"
               /\ (b = 58 /\ HasLF(t)) => r.typ = "int"
               /\ (b = 36 /\ t = <<45, 49, 13, 10>>) => r.typ = "null"
               /\ (b = 36 /\ t = <<50, 13, 10, 104, 105, 13, 10>>)
                    => (r.typ = "bulk" /\ r.data = <<104, 105>>)
               /\ (b = 255 /\ Len(t) >= 3 /\ Take(t, 3) = <<255, 255, 255>>)
                    => r.typ = "arrow-stream"

C5Witness ==
    /\ cout.kind = "decoded"
    /\ Head(cin.bytes) = 58
    /\ cout.r.typ = "int"

C7RoundTrip ==
    cout.kind = "readback"
        => /\ cout.r.st = "ret" /\ cout.r.err = "nil"
           /\ cout.r.typ = "bulk"
           /\ cout.r.rest = <<>>
           /\ Len(cout.r.data) >= 2
           /\ Take(cout.r.data, 2) = (IF cin.op = "Query" THEN <<113, 58>> ELSE <<120, 58>>)
           /\ Drop(cout.r.data, 2) = cin.sql

C7Witness ==
    /\ cout.kind = "readback"
    /\ cin.op = "Query"
    /\ cin.sql = <<36, 10>>

\* C8: on a closed Session, Query, Exec and Ping return the bad-connection
\* error at once: no frame is written, nothing is read, the call returns.
C8ClosedFailsFast ==
    [][(closed /\ ret'.op \in {"Exec", "Query", "Ping"})
          => (ret'.err = "ErrBadConn" /\ UNCHANGED <<nsent, frame, unread, pc>>)]_vars

C8Witness == closed /\ ret.op = "Query" /\ ret.err = "ErrBadConn"

\* C9 as stated: Close on an already-closed Session returns no error and
\* changes no state.
C9CloseIdempotent ==
    [][(closed /\ ret'.op = "Close")
          => (ret'.err = "nil"
              /\ UNCHANGED <<closed, tx, sockClosed, wire, handles, rs, yielded>>)]_vars

\* C9 amended: Close on an already-closed Session changes no state and
\* returns the error "connection already closed".
C9CloseTwiceErrors ==
    [][(closed /\ ret'.op = "Close")
          => (ret'.err = "connection already closed"
              /\ UNCHANGED <<closed, tx, sockClosed, wire, handles, rs, yielded>>)]_vars

C9Witness == closed /\ ret.op = "Close" /\ ret.err = "connection already closed"

\* C10: BeginTx with the transaction flag set returns an error, sends no
\* command and leaves the flag set.
C10BeginTwice ==
    [][(tx /\ ret'.op = "BeginTx")
          => (ret'.err = "already an open transaction"
              /\ tx' /\ UNCHANGED <<nsent, frame, unread>>)]_vars

C10Witness == tx /\ ret.op = "BeginTx" /\ ret.err = "already an open transaction"

\* C11: Commit or Rollback without an open transaction (the flag is false, or
\* the handle was already committed or rolled back) returns an error to the
\* caller, does not abort the program, sends no command and leaves the flag
\* false.
C11EndTxWithoutTx ==
    [][\A i \in DOMAIN handles :
          (/\ ~handles[i] \/ ~tx
           /\ EndTx(i, "Commit", SqlCommit) \/ EndTx(i, "Rollback", SqlRollback))
          => (/\ pc' = "running"
              /\ ret'.err \notin {"nil", "panic"}
              /\ nsent' = nsent
              /\ ~tx')]_vars

\* C12: a '-' frame received on a synchronized session makes Exec and Query
\* return the error tagged "luna error" carrying the server's message, with
\* no ResultSet, the Session still open and nothing unread; the command that
\* follows is written and decodes the variant of its own response.
C12ServerError ==
    [][/\ (/\ ret'.op \in {"Exec", "Query"}
           /\ unread = <<>>
           /\ nsent' = nsent + 1
           /\ srvLast'.bytes = <<45, 110, 111>> \o CRLF)
          => (/\ ret'.err = "luna error"
              /\ ret'.msg = <<110, 111>>
              /\ rs' = rs
              /\ ~closed'
              /\ pc' = "running"
              /\ unread' = <<>>)
       /\ (/\ ret.op \in {"Exec", "Query"}
           /\ ret.err = "luna error"
           /\ unread = <<>>
           /\ ~peerEOF
           /\ ret'.op \in {"Exec", "Query"})
          => (/\ nsent' = nsent + 1
              /\ ret'.typ # "" => ret'.typ \in VariantsOf(Head(srvLast'.bytes))
              /\ VariantsOf(Head(srvLast'.bytes)) = {}
                     => ret'.err = "failed to read response")]_vars

\* C12 witness: the second command, a Query, was answered by '-no' and
\* returned the tagged error with the message, the Session open and in step
C12Witness ==
    /\ ret.op = "Query" /\ ret.err = "luna error" /\ ret.msg = <<110, 111>>
    /\ srvLast.bytes = <<45, 110, 111>> \o CRLF
    /\ nsent = 2
    /\ ~closed /\ unread = <<>> /\ pc = "running"

\* C15: Rows.Close releases every retained batch exactly once: before the
\* first Close no batch has been released, after it each of the stream's
\* batches has been released once, whatever Next had consumed, and a later
\* Close returns no error and releases nothing.
C15CloseReleasesOnce ==
    rs.exists
        => /\ Len(rs.released)
                = Len(CHOOSE b \in BatchLists : EncStream(<<5>>, b) = srvLast.bytes)
           /\ \A i \in 1..Len(rs.released) :
                 rs.released[i] = (IF rs.closed THEN 1 ELSE 0)
           /\ ret.op = "RowsClose" => (ret.err = "nil" /\ rs.closed /\ rs.records = <<>>)

\* C15 witness: a cursor over three batches closed after two calls of Next
C15Witness ==
    /\ rs.exists /\ rs.closed
    /\ rs.released = <<1, 1, 1>>
    /\ Len(yielded) = 2
    /\ ret.op = "RowsClose"

\* the schema the server declared in the stream b, and the cell of row k and
\* column i of its data block as sent
SentFields(b) == CHOOSE f \in CellSchemas : Take(b, Len(EncSchema(f))) = EncSchema(f)
SentCell(b, k, i) == b[Len(EncSchema(SentFields(b))) + 11 + (k - 1) * Len(SentFields(b)) + i]

\* C13: a Query whose stream declares a column of a type outside the
\* supported set fails itself, whatever the cells of the column, and no row
\* of that stream is delivered.
C13UnsupportedTypeFailsQuery ==
    [][(/\ ret'.op = "Query"
        /\ nsent' = nsent + 1
        /\ \E i \in 1..Len(SentFields(srvLast'.bytes)) :
              FieldType(SentFields(srvLast'.bytes)[i]) \notin SupportedTypes)
          => (ret'.err # "nil" /\ rs' = rs)]_vars

\* C14: in a column of a supported type, Rows.Next delivers a cell as nil
\* exactly when the cell was sent as null, and a cell that is not null is
\* delivered with the value sent.
C14NullIsNil ==
    rs.exists
        => \A k \in 1..Len(yielded) : \A i \in 1..Len(yielded[k]) :
              FieldType(SentFields(srvLast.bytes)[i]) \in SupportedTypes
                  => /\ yielded[k][i].isNil <=> SentCell(srvLast.bytes, k, i) = 0
                     /\ ~yielded[k][i].isNil
                            => yielded[k][i].val = SentCell(srvLast.bytes, k, i)

\* C14 witness: a row with a null Int64 and a non-null String was delivered
C14Witness ==
    /\ rs.exists
    /\ srvLast.bytes = EncStream(<<32 + 5, 64 + 12>>, << << <<0, 7>> >> >>)
    /\ Len(yielded) = 1
    /\ yielded[1][1].isNil
    /\ ~yielded[1][2].isNil /\ yielded[1][2].val = 7
    /\ ret.op = "Next" /\ ret.err = "nil"

\* C16: Columns returns the names of the schema of the first batch in schema
\* order, and the empty list when the stream carried no batch, before,
\* during and after iteration and after Close.
C16ColumnsFromFirstBatch ==
    (rs.exists /\ ret.op = "Columns")
        => ret.msg = (IF srvLast.bytes = EncStream(SentFields(srvLast.bytes), <<>>)
                      THEN <<>>
                      ELSE [i \in 1..Len(SentFields(srvLast.bytes)) |->
                               FieldName(SentFields(srvLast.bytes)[i])])

\* C16 witness: Columns called on a closed cursor over two columns, the
\* String declared before the Int64, after a row was delivered
C16Witness ==
    /\ rs.exists /\ rs.closed
    /\ Len(yielded) = 1
    /\ ret.op = "Columns"
    /\ ret.msg = <<2, 1>>

\* C17: with no password in the DSN, Connect makes no handshake: it reads
\* and writes nothing before the first command frame, and the first Query
\* succeeds against a server that sent nothing after connect.
C17NoCredentialNoHandshake ==
    [][/\ (pc = "dialed" /\ password = <<>>)
          => (/\ pc' = "running"
              /\ ret' = Failure("Connect", "nil")
              /\ auth'.log = <<>>
              /\ unread' = auth'.srv.greeting
              /\ nsent' = 0)
       /\ (/\ password = <<>>
           /\ ret.op = "Connect"
           /\ auth.srv.greeting = <<>>
           /\ ~peerEOF
           /\ ret'.op = "Query"
           /\ srvLast'.bytes \in Streams)
          => (/\ ret'.err = "nil"
              /\ rs'.exists
              /\ nsent' = 1
              /\ frame' = sendCommand(cmdQuery, <<83>>)
              /\ unread' = <<>>)]_vars

\* C17 witness: no password, a silent server, and the first Query returned
\* the rows of a stream
C17Witness ==
    /\ password = <<>>
    /\ auth = NoHandshake
    /\ ret.op = "Query" /\ ret.err = "nil"
    /\ nsent = 1
    /\ Len(rs.records) = 3

\* C18: when the server sends nothing after connect and waits for the first
\* command, Connect does not block: it returns a Session that is ready,
\* whether or not the DSN holds a password.
C18ConnectNeverBlocks ==
    (auth.called /\ auth.srv.greeting = <<>> /\ ~auth.srv.geof /\ ret.op = "Connect")
        => (pc = "running" /\ ret.err = "nil")

\* the writes of a handshake log
Writes(log) == {i \in 1..Len(log) : log[i].io = "write"}

\* C19: with a password, the handshake is ordered: nothing is written before
\* a complete challenge line starting with '+' has been read, then exactly
\* one bulk frame with the hash, never the password itself, is written, then
\* one result line is read; Connect returns a Session exactly when that
\* result line starts with '+'; no command frame precedes the handshake.
C19HandshakeOrdered ==
    [][(pc = "dialed" /\ password # <<>>)
          => (/\ Writes(auth'.log) \subseteq {3}
              /\ Writes(auth'.log) # {}
                    => (/\ auth'.log[1] = Rd(<<43>>)
                        /\ HasLF(auth'.log[2].bytes)
                        /\ \E salt \in Salts : auth'.log[3] = Wr(authResp(password, salt))
                        /\ auth'.log[3].bytes
                               # <<36>> \o FormatInt(Len(password)) \o CRLF \o password \o CRLF)
              /\ pc' = "running"
                    <=> (/\ Len(auth'.log) = 5
                         /\ Writes(auth'.log) = {3}
                         /\ auth'.log[4] = Rd(<<43>>))
              /\ nsent' = 0)]_vars

\* C20: when the challenge cannot be read, or the server answers the hash
\* with a '-' line, Connect returns the authentication-failure error and no
\* Session, and the socket is closed; every error of Connect after the dial
\* is of that kind.
C20AuthFailureClosesSocket ==
    [][(pc = "dialed" /\ password # <<>> /\ pc' # "blocked")
          => (/\ (\/ auth'.srv.geof /\ auth'.srv.greeting = <<>>
                  \/ auth'.srv.geof /\ auth'.srv.greeting = <<43, 99>>
                  \/ (/\ auth'.srv.greeting = <<43, 99>> \o CRLF
                      /\ auth'.srv.wok
                      /\ auth'.srv.verdict = <<45, 110, 111>> \o CRLF))
                    => ret'.err = "authentication failed"
              /\ ret'.err # "nil"
                    => (/\ ret'.err = "authentication failed"
                        /\ pc' = "failed"
                        /\ sockClosed'
                        /\ nsent' = 0))]_vars

\* C20 witness: the server answered the hash with '-no' and Connect failed
\* with the socket closed
C20Witness ==
    /\ password # <<>>
    /\ ret = Failure("Connect", "authentication failed")
    /\ auth.cause = "authentication failed"
    /\ Len(auth.log) = 5
    /\ auth.log[5] = Rd(<<110, 111>> \o CRLF)
    /\ pc = "failed"
    /\ sockClosed

\* C21: when the peer has closed the connection, so that the write of the
\* command fails or the read of the response meets the end of the stream, an
\* Exec or Query on the open Session returns the bad-connection error.
C21BrokenSocketIsBadConn ==
    [][(/\ ~closed
        /\ peerEOF
        /\ unread = <<>>
        /\ ret'.op \in {"Exec", "Query"})
          => ret'.err = "ErrBadConn"]_vars

\* C28 as stated: while the ResultSet that Query returned is open and has
\* rows left, no command frame is written on the Session.
C28BusyWhileRowsOpen ==
    [][(rs.exists /\ ~rs.closed /\ RowsNextResult(rs).err = "nil")
          => nsent' = nsent]_vars

\* C28 amended: a Query answered by a complete batch stream returns with the
\* whole stream read and the Session ready, and an Exec or Query issued
\* while the ResultSet is open and has rows left is written at once and
\* leaves the ResultSet as it was (Query puts its own in the caller's hand).
C28ReadyWhileRowsOpen ==
    [][/\ (/\ ret'.op = "Query"
           /\ unread = <<>>
           /\ nsent' = nsent + 1
           /\ srvLast'.bytes \in Streams)
          => (/\ ret'.err = "nil"
              /\ unread' = <<>>
              /\ pc' = "running"
              /\ rs'.exists /\ ~rs'.closed
              /\ EncStream(<<5>>, [i \in 1..Len(rs'.records) |-> rs'.records[i].rows])
                     = srvLast'.bytes)
       /\ (/\ rs.exists /\ ~rs.closed /\ RowsNextResult(rs).err = "nil"
           /\ ~closed
           /\ ~peerEOF
           /\ ret'.op \in {"Exec", "Query"})
          => (/\ nsent' = nsent + 1
              /\ ret'.op = "Exec" => rs' = rs)]_vars

\* C28 witness: an Exec was written and answered while the ResultSet of the
\* Query before it was open with all its rows left
C28Witness ==
    /\ rs.exists /\ ~rs.closed
    /\ Len(rs.records) = 3
    /\ yielded = <<>>
    /\ RowsNextResult(rs).err = "nil"
    /\ ret.op = "Exec" /\ ret.err = "nil"
    /\ nsent = 2

\* the rows of the batches a cursor holds, in order
RowsOf(records) == Flatten([i \in 1..Len(records) |-> records[i].rows])

\* C29: Query decodes the whole batch stream before it returns.  Rows.Next
\* and Rows.Close read nothing from the socket and write nothing; whatever
\* is called on the Session while the ResultSet is open (Exec, Ping, BeginTx,
\* Commit, Rollback, Close) leaves its batches and its cursor as they were;
\* and the rows Next delivers are the rows decoded when Query returned, in
\* order.
C29RowsDecodedAtQuery ==
    [][/\ ret'.op \in {"Next", "RowsClose"}
          => UNCHANGED <<unread, peerEOF, nsent, frame, srvLast, sockClosed, closed>>
       /\ (rs.exists /\ ~rs.closed /\ ret'.op \notin {"Query", "Next", "RowsClose"})
          => (rs' = rs /\ yielded' = yielded)
       /\ (rs.exists /\ ~rs.closed /\ ret'.op = "Next" /\ ret'.err = "nil")
          => (/\ rs'.records = rs.records
              /\ Len(yielded') = Len(yielded) + 1
              /\ LET row == yielded'[Len(yielded')]
                 IN  [i \in 1..Len(row) |-> row[i].val] = RowsOf(rs.records)[Len(yielded')])
       /\ (rs.exists /\ ~rs.closed /\ ret'.op = "Next" /\ ret'.err = "EOF")
          => Len(yielded) = Len(RowsOf(rs.records))]_vars

\* C29 witness: the third row of a ResultSet was delivered after the Session
\* was closed, two commands having been sent on it
C29Witness ==
    /\ rs.exists /\ ~rs.closed
    /\ closed
    /\ nsent = 2
    /\ ret.op = "Next" /\ ret.err = "nil"
    /\ Len(yielded) = 3

\* the number of rows of the batch the cursor r stands in
RowCount(r) == Len(r.records[r.recordIdx + 1].rows)

\* C30 as stated: between operations, while batchIndex is below the number
\* of batches, rowIndex is below the row count of the current batch.
C30CursorBelowRowCount ==
    (rs.exists /\ ~rs.closed /\ rs.recordIdx < Len(rs.records))
        => rs.rowIdx < RowCount(rs)

\* C30 amended: between operations, while batchIndex is below the number of
\* batches, rowIndex is at most the row count of the current batch, and
\* equal to it once the last row of the batch has been delivered.  The
\* Next that follows moves on: it delivers row 0 of the next batch that is
\* not empty and leaves rowIndex = 1 there, or, no such batch being left,
\* leaves batchIndex at the number of batches and returns end-of-data.
C30CursorAdvancesLazily ==
    [][/\ (rs'.exists /\ ~rs'.closed /\ rs'.recordIdx < Len(rs'.records))
          => rs'.rowIdx <= RowCount(rs')
       /\ (rs.exists /\ ~rs.closed /\ ret'.op = "Next" /\ ret'.err = "nil")
          => /\ rs'.recordIdx < Len(rs.records)
             /\ rs'.recordIdx = rs.recordIdx => rs'.rowIdx = rs.rowIdx + 1
             /\ rs'.recordIdx # rs.recordIdx
                  => (/\ rs'.recordIdx > rs.recordIdx
                      /\ rs.rowIdx = RowCount(rs)
                      /\ \A k \in (rs.recordIdx + 2)..rs'.recordIdx :
                            rs.records[k].rows = <<>>
                      /\ rs'.rowIdx = 1
                      /\ yielded'[Len(yielded')]
                             = RowValues(rs.records[rs'.recordIdx + 1], 0))
       /\ (rs.exists /\ ~rs.closed /\ ret'.op = "Next" /\ ret'.err # "nil")
          => (/\ ret'.err = "EOF"
              /\ rs'.recordIdx = Len(rs.records)
              /\ yielded' = yielded
              /\ rs.recordIdx < Len(rs.records)
                    => (rs.rowIdx = RowCount(rs) /\ rs'.rowIdx = 0))]_vars

\* C30 witness: the cursor stands at the end of the first batch of three,
\* both its rows delivered, the batch index not yet moved
C30Witness ==
    /\ rs.exists /\ ~rs.closed
    /\ Len(rs.records) = 3
    /\ rs.recordIdx = 0
    /\ rs.rowIdx = 2
    /\ RowCount(rs) = 2
    /\ Len(yielded) = 2
    /\ ret.op = "Next" /\ ret.err = "nil"

\* C23 as stated: the variant is a function of the first response byte
\* alone: whatever follows the first byte of the response decoded, a
\* response that begins with the same byte and decodes gives the same variant.
C23VariantByFirstByte ==
    cout.kind = "decoded"
        => \A t \in Tails : \A e \in BOOLEAN :
              (/\ cout.r.typ # ""
               /\ readResponse(<<Head(cin.bytes)>> \o t, e).typ # "")
                  => readResponse(<<Head(cin.bytes)>> \o t, e).typ = cout.r.typ

\* C23 amended: one call of readResponse gives at most one variant.  For a
\* first byte other than '$', every response beginning with it that decodes
\* gives the same variant.  For '$' the variant is Null or BulkBytes and the
\* length line decides: Null exactly when it reads -1.
C23VariantByFirstByteAndLength ==
    cout.kind = "decoded"
        => /\ Head(cin.bytes) # 36
              => \A t \in Tails : \A e \in BOOLEAN :
                    (/\ cout.r.typ # ""
                     /\ readResponse(<<Head(cin.bytes)>> \o t, e).typ # "")
                        => readResponse(<<Head(cin.bytes)>> \o t, e).typ = cout.r.typ
           /\ (Head(cin.bytes) = 36 /\ cout.r.typ # "")
              => cout.r.typ
                   = (IF TrimSpace(ReadString(Tail(cin.bytes), cin.eof).val) = <<45, 49>>
                      THEN "null" ELSE "bulk")
           /\ cout.r.typ \in {"", "ok", "error", "int", "null", "bulk", "arrow-stream"}

\* C23 witness: a response beginning with '$' decoded as Null, while '$'
\* followed by a length and a payload decodes as BulkBytes
C23Witness ==
    /\ cout.kind = "decoded"
    /\ cin.bytes = <<36, 45, 49, 13, 10>>
    /\ cout.r.typ = "null"
    /\ readResponse(<<36, 50, 13, 10, 104, 105, 13, 10>>, FALSE).typ = "bulk"

\* C22: after Stmt.Close, each of Exec, Query, NumInput and a second Close
\* on the Statement returns an error to the caller, the program goes on,
\* and nothing is written to or read from the socket.
C22ClosedStmtReportsMisuse ==
    [][(/\ stmt.exists
        /\ stmt.closed
        /\ \/ StmtClose
           \/ NumInput
           \/ \E a \in ArgLists : StmtExec(a) \/ StmtQuery(a))
          => (/\ pc' = "running"
              /\ ret'.err \notin {"nil", "panic"}
              /\ UNCHANGED <<nsent, frame, unread>>)]_vars

\* C24: the frame written by Exec and Query depends only on the kind of the
\* command and the SQL text.  In every state where the Session can take a
\* command, Exec called on it with the text q and any argument list writes
\* the frame of (Execute, q), and Query that of (Query, q); every Exec and
\* Query made through the Statement writes the frame of the text given to
\* Prepare, which no call on the Statement changes.
C24ArgsNotOnTheWire ==
    /\ [](pc = "running" /\ ~closed
            => \A q \in StmtTexts : \A a \in ArgLists : \A srv \in StmtSrv :
                  /\ ExecContextArgs(q, a, srv).wrote = sendCommand(cmdExecute, q)
                  /\ QueryContextArgs(q, a, srv).wrote = sendCommand(cmdQuery, q))
    /\ [][/\ (ret'.op = "Exec" /\ ret'.err # "statement is closed")
                => (nsent' = nsent + 1 /\ frame' = sendCommand(cmdExecute, stmt.query))
          /\ (ret'.op = "Query" /\ ret'.err # "statement is closed")
                => (nsent' = nsent + 1 /\ frame' = sendCommand(cmdQuery, stmt.query))
          /\ (stmt.exists /\ ret'.op # "Prepare") => stmt'.query = stmt.query]_vars

\* C24 witness: three commands have been sent through Statements, the last
\* by Query on the Statement prepared with the text T, and the last frame
\* written is that of (Query, T)
C24Witness ==
    /\ stmt.exists /\ ~stmt.closed
    /\ stmt.query = <<84>>
    /\ nsent = 3
    /\ ret.op = "Query"
    /\ frame = <<36, 51, 13, 10, 113, 58, 84, 13, 10>>

\* C25: every Result returned by a successful Exec holds rowsAffected = 0,
\* whatever the variant of the response (Ok, Integer, Null, BulkBytes or a
\* batch stream), a failed Exec returns no new Result, and RowsAffected
\* returns the count held, without error and without changing it.
C25RowsAffectedZero ==
    [][/\ (ret'.op = "Exec" /\ ret'.err = "nil")
          => (/\ ret'.typ \in {"ok", "int", "null", "bulk", "arrow-stream"}
              /\ result'.exists
              /\ result'.rowsAffected = 0)
       /\ (ret'.op = "Exec" /\ ret'.err # "nil") => result' = result
       /\ ret'.op = "RowsAffected"
          => (/\ ret'.err = "nil"
              /\ ret'.msg = <<result.rowsAffected>>
              /\ ret'.msg = <<0>>
              /\ result' = result)]_vars

\* C25 witness: RowsAffected was called on the Result of the only Exec so
\* far, which the server answered with the Integer 1
C25Witness ==
    /\ ret.op = "RowsAffected" /\ ret.err = "nil" /\ ret.msg = <<0>>
    /\ result.exists
    /\ nsent = 1
    /\ srvLast.bytes = <<58, 49, 13, 10>>

Incoming == unread \o srvLast'.bytes

\* C31: an Exec or Query whose response begins with 0xFF reads 3 more bytes.
\* If they are all 0xFF the call ends as the stream reader ends on the 4
\* marker bytes followed by the rest of the socket stream: same error or
\* success, same batches, same bytes left unread.  If one of them differs
\* the call fails with a read error, decodes no batch, and exactly the 4
\* bytes have been consumed.
C31MarkerThenStream ==
    [][(/\ ret'.op \in {"Exec", "Query"}
        /\ nsent' = nsent + 1
        /\ Len(Incoming) >= 4
        /\ Head(Incoming) = 255)
       => IF Take(Incoming, 4) = Marker
          THEN LET p == ReadStream(Incoming, srvLast'.eof)
               IN  /\ ret'.typ = "arrow-stream"
                   /\ (pc' = "blocked") = (p.st = "block")
                   /\ p.st = "ret"
                        => /\ pc' = "running"
                           /\ unread' = p.rest
                           /\ (ret'.err = "nil") = (p.err = "nil")
                           /\ (ret'.op = "Query" /\ p.err = "nil")
                                => (rs'.records = p.records /\ yielded' = <<>>)
          ELSE /\ pc' = "running"
               /\ ret'.err = "failed to read response"
               /\ ret'.typ = ""
               /\ unread' = Drop(Incoming, 4)
               /\ UNCHANGED <<rs, yielded>>]_vars

\* C31 witness: a Query answered by a stream of three blocks returned its
\* three batches with nothing left unread
C31Witness ==
    /\ ret.op = "Query" /\ ret.err = "nil" /\ ret.typ = "arrow-stream"
    /\ srvLast.bytes = EncStream(<<5>>, << <<<<7>>, <<8>>>>, <<>>, <<<<9>>>> >>)
    /\ rs.exists /\ Len(rs.records) = 3
    /\ unread = <<>>

\* the input of readResponse after the first line, and that line trimmed
AfterLine(s) == Drop(s, IndexOfLF(s))
LengthLine(s) == TrimSpace(Take(s, IndexOfLF(s)))

\* C32: for a '$' response with length line L, readResponse returns Null for
\* L = -1 with nothing consumed after the line; for L >= 0 BulkBytes whose
\* payload is the next L bytes, with exactly two more bytes consumed; for
\* every other length line (not a number, or negative other than -1) it
\* returns a protocol error and does not abort.
C32BulkByLength ==
    (cout.kind = "decoded" /\ Head(cin.bytes) = 36 /\ HasLF(cin.bytes))
        => LET after == AfterLine(Tail(cin.bytes))
               n     == Atoi(LengthLine(Tail(cin.bytes)))
               r     == cout.r
           IN  /\ (n.ok /\ n.val = -1)
                    => (r.st = "ret" /\ r.err = "nil" /\ r.typ = "null" /\ r.rest = after)
               /\ (n.ok /\ n.val >= 0 /\ Len(after) >= n.val + 2)
                    => /\ r.st = "ret" /\ r.err = "nil" /\ r.typ = "bulk"
                       /\ r.data = Take(after, n.val)
                       /\ r.rest = Drop(after, n.val + 2)
               /\ (~n.ok \/ n.val < -1)
                    => (r.st = "ret" /\ r.err # "nil" /\ r.typ = "")

\* the payload is a whole columnar stream as the encoder writes it
IsStream(data) == \E bs \in BatchLists : data = EncStream(<<5>>, bs)

\* the payload readResponse hands to QueryContext
Payload == readResponse(Incoming, srvLast'.eof).data

\* C33: a Query whose response is Ok, Integer, Null or BulkBytes returns an
\* empty ResultSet without error when the response is Null or its payload is
\* empty: no batch, no column, and Next on it reports end-of-data.  When the
\* payload is not empty and is not a columnar stream, the Query fails with
\* the decode error and hands out no ResultSet.
C33PayloadOfQuery ==
    /\ []((rs.exists /\ rs.columns = <<>> /\ ret.op = "Next")
            => (ret.err = "EOF" /\ yielded = <<>>))
    /\ [][(/\ ret'.op = "Query"
            /\ nsent' = nsent + 1
            /\ ret'.typ \in {"ok", "int", "null", "bulk"})
           => /\ (ret'.typ = "null" \/ Payload = <<>>)
                  => /\ ret'.err = "nil"
                     /\ rs'.exists /\ ~rs'.closed
                     /\ rs'.records = <<>>
                     /\ rs'.columns = <<>>
                     /\ yielded' = <<>>
              /\ (Payload # <<>> /\ ~IsStream(Payload))
                  => /\ ret'.err = "failed to parse Arrow IPC"
                     /\ pc' = "running"
                     /\ UNCHANGED <<rs, yielded>>]_vars

\* C33 witness: a Query answered by an empty bulk string returned a
\* ResultSet on which Next reported end-of-data
C33Witness ==
    /\ srvLast.bytes = <<36, 48, 13, 10, 13, 10>>
    /\ rs.exists /\ rs.records = <<>> /\ rs.columns = <<>>
    /\ ret.op = "Next" /\ ret.err = "EOF"

\* the Execute frame of a literal command
ExecuteFrame(text) == <<36>> \o FormatInt(Len(text) + 2) \o CRLF \o <<120, 58>> \o text \o CRLF

\* the text of the command a transaction operation sends
TxText(op) ==
    IF op = "BeginTx" THEN SqlBegin ELSE IF op = "Commit" THEN SqlCommit ELSE SqlRollback

\* C34: BeginTx, Commit and Rollback write at most one frame, the Execute
\* frame of BEGIN TRANSACTION, COMMIT TRANSACTION and ROLLBACK, and write it
\* whenever the Session is open, its socket takes the write and (for
\* BeginTx) the flag is not set.  BeginTx sets the flag exactly when its
\* command succeeded, and leaves it false on a closed Session.  When Commit
\* or Rollback returns, with or without error, the flag is false, and a
\* BeginTx that follows is not refused for an open transaction.
C34TxCommandsAndFlag ==
    /\ []((ret.op \in {"Commit", "Rollback"} /\ pc = "running") => ~tx)
    /\ [][/\ (ret'.op \in {"BeginTx", "Commit", "Rollback"} /\ pc' # "panicked")
             => /\ nsent' \in {nsent, nsent + 1}
                /\ nsent' = nsent + 1 => frame' = ExecuteFrame(TxText(ret'.op))
                /\ (~closed /\ ~peerEOF /\ (ret'.op = "BeginTx" => ~tx))
                     => nsent' = nsent + 1
          /\ (ret'.op = "BeginTx" /\ ~tx)
             => /\ tx' = (pc' = "running" /\ ret'.err = "nil")
                /\ ret'.err # "already an open transaction"
                /\ closed => (~tx' /\ nsent' = nsent)
          /\ (ret'.op \in {"Commit", "Rollback"} /\ pc' = "running")
             => ~tx']_vars

\* C34 witness: a second BeginTx succeeded, as third command of the Session,
\* after the first transaction was ended by Commit or Rollback
C34Witness ==
    /\ Len(handles) = 2
    /\ ~handles[1] /\ handles[2]
    /\ tx
    /\ ret.op = "BeginTx" /\ ret.err = "nil"
    /\ nsent = 3

\* C35: Ping on an open Session writes one frame, the Query frame of
\* SELECT 1; every batch decoded from the response has been released when it
\* returns, none is left without a holder; the closed and transaction flags
\* are unchanged; and it returns an error exactly when the Query of
\* SELECT 1 on the same bytes returns one.
C35PingReleasesBatches ==
    [][(ret'.op = "Ping" /\ ~closed /\ pc' = "running")
       => /\ nsent' = nsent + 1
          /\ frame' = <<36, 49, 48, 13, 10, 113, 58>> \o SqlSelect1 \o CRLF
          /\ UNCHANGED <<closed, tx>>
          /\ orphans' = orphans
          /\ (ret'.err = "nil")
                = (QueryOpen(SqlSelect1, [wok |-> TRUE, bytes |-> srvLast'.bytes,
                                          eof |-> srvLast'.eof]).err = "nil")]_vars

\* every batch of the ResultSet held has been released exactly once
ReleasedOnce(r) == \A i \in 1..Len(r.released) : r.released[i] = 1

\* C36: whenever the caller has closed every ResultSet it received, every
\* batch the decoder retained has been released exactly once: the batches of
\* the ResultSet were each released once, and no batch retained by an Exec,
\* a Ping or a failed Query is left without a holder to release it.
C36BatchesBalanced ==
    (pc = "running" /\ (~rs.exists \/ rs.closed))
        => /\ orphans = 0
           /\ rs.exists => ReleasedOnce(rs)

\* C37: Commit or Rollback on a handle that was already committed or rolled
\* back changes neither the transaction flag nor any handle, also when a
\* later BeginTx has set the flag again, and writes nothing to the socket
\* and reads nothing from it.
C37StaleHandleDetached ==
    [][\A i \in DOMAIN handles :
          (~handles[i] /\ (Commit(i) \/ Rollback(i)))
          => UNCHANGED <<tx, handles, nsent, frame, unread, closed>>]_vars

\* C37 witness: Commit or Rollback was called on the first handle, already
\* ended, while the transaction of the second handle was open; the flag
\* is still set
C37Witness ==
    /\ Len(handles) = 2
    /\ ~handles[1] /\ handles[2]
    /\ tx
    /\ ret.op \in {"Commit", "Rollback"}
    /\ ret.err = "panic"

\* C38: the closed flag, once set, stays set; from then on no operation
\* writes a frame to the socket or reads from it: Exec, Query, Ping,
\* BeginTx, Commit and Rollback of a transaction begun before Close, Exec
\* and Query through a Statement prepared before Close; and BeginTx on
\* the closed Session leaves a transaction flag that was false false.
C38ClosedForGood ==
    [][closed => /\ closed'
                 /\ sockClosed'
                 /\ UNCHANGED <<nsent, frame, unread, peerEOF>>
                 /\ (ret'.op = "BeginTx" /\ ~tx) => ~tx']_vars

\* C38 witness: on a Session whose only frame is that of BeginTx and whose
\* peer is still connected, the transaction was ended by Commit or Rollback
\* without a frame, that is after Close; a Statement is held and the last
\* Exec was refused
C38Witness ==
    /\ closed
    /\ stmt.exists
    /\ Len(handles) = 1 /\ ~handles[1]
    /\ nsent = 1
    /\ ~peerEOF
    /\ ret.op = "Exec" /\ ret.err = "ErrBadConn"

\* Next has just failed on a cell of a type outside the switch
NextFailed == ret.op = "Next" /\ ret.err = "unsupported Arrow type"

\* C39 as stated: a call of Next that fails on a cell of unsupported type
\* leaves the cursor (recordIdx, rowIdx) as it found it; every Next after it
\* fails again and delivers no row; Next on a closed ResultSet returns
\* end-of-data.
C39FailedNextKeepsCursor ==
    [][/\ NextFailed' => UNCHANGED <<rs, yielded>>
       /\ (NextFailed /\ ~rs.closed /\ ret'.op = "Next")
          => (NextFailed' /\ UNCHANGED <<rs, yielded>>)
       /\ (rs.closed /\ ret'.op = "Next")
          => (ret'.err = "EOF" /\ UNCHANGED <<rs, yielded>>)]_vars

\* C39 amended: a call of Next that fails on a cell of unsupported type
\* delivers no row and leaves the cursor on the row it failed on: that is
\* where it stood, or row 0 of a later batch when the call first moved past
\* batches with no row left.  Every Next after it leaves the cursor
\* unchanged, fails again and delivers no row; Next on a closed ResultSet
\* returns end-of-data.
C39FailedNextStaysOnRow ==
    [][/\ NextFailed'
          => /\ yielded' = yielded
             /\ rs'.records = rs.records
             /\ rs'.recordIdx < Len(rs.records)
             /\ rs'.rowIdx < Len(rs.records[rs'.recordIdx + 1].rows)
             /\ \/ rs'.recordIdx = rs.recordIdx /\ rs'.rowIdx = rs.rowIdx
                \/ /\ rs'.recordIdx > rs.recordIdx
                   /\ rs'.rowIdx = 0
                   /\ rs.rowIdx >= Len(rs.records[rs.recordIdx + 1].rows)
                   /\ \A j \in (rs.recordIdx + 2)..rs'.recordIdx :
                         Len(rs.records[j].rows) = 0
       /\ (NextFailed /\ ~rs.closed /\ ret'.op = "Next")
          => (NextFailed' /\ UNCHANGED <<rs, yielded>>)
       /\ (rs.closed /\ ret'.op = "Next")
          => (ret'.err = "EOF" /\ UNCHANGED <<rs, yielded>>)]_vars

\* C39 witness: after one row of the first batch was delivered, Next moved
\* to the second batch and failed on its first row
C39Witness ==
    /\ NextFailed
    /\ rs.exists /\ ~rs.closed
    /\ Len(yielded) = 1
    /\ rs.recordIdx = 1 /\ rs.rowIdx = 0

\* C40: an Exec or Query on an open Session that has written its frame
\* returns, with a result or an error, once the peer has delivered one whole
\* response frame or has closed the connection: it is not left waiting for
\* a byte the peer never sends.
C40CallReturns ==
    [][(/\ ret'.op \in {"Exec", "Query"}
        /\ ~closed
        /\ nsent' = nsent + 1
        /\ srvLast'.bytes \in WellFormed \/ srvLast'.eof)
       => pc' = "running"]_vars

====
